---- MODULE Spec2Model ----
(***************************************************************************)
(* The ice-cream personality game of src/src/pages/AIStudio.tsx: the game  *)
(* state machine, the setup screen, the round screen, the thinking screen  *)
(* and the ingredient inventory hook, as one state machine (Spec); the      *)
(* setup screen alone with all its name fields (SpecSetup); the image      *)
(* generation hook of src/src/hooks/useRealTimeCosts.ts and its poller     *)
(* (SpecImageGeneration); the reveal screen's image display of             *)
(* src/src/components/FinalReveal.tsx (SpecFinalReveal);                   *)
(* generatePersonality as a function of its inputs (SpecPersonality); the  *)
(* game data FinalReveal generates, saves and downloads (SpecGameData);    *)
(* the game with the session id its image requests carry (SpecSession);    *)
(* the image generation hook with its component's unmount                  *)
(* (SpecHookLifetime); and the thinking screen of                          *)
(* src/src/components/AIThinkingScreen.tsx on a clock of 200 ms units,     *)
(* without and with the firing of due timers assumed (SpecThinking,        *)
(* SpecThinkingFair).                                                      *)
(*                                                                         *)
(* Conventions.  A JavaScript value that may be null/undefined is a        *)
(* sequence of length 0 (absent) or 1 (present).  Cursors are 0-based as   *)
(* in the source; TLA+ sequences are 1-based, so players[i + 1] is the     *)
(* source's players[i].  Amounts of money are held in halves of a currency *)
(* unit, so that the 12.5 of the thinking screen's fallback is the integer *)
(* 25 and a price of 15 is 30.  A name is a sequence of characters.        *)
(***************************************************************************)
EXTENDS Integers, Sequences, FiniteSets, TLC

\* ------------------------------------------------------------------ bounds
\* Name fields the setup screen is allowed to hold in the model.
MaxP == 2
\* Turns (selections or skips) per game the model explores: two full turns of
\* four rounds; a game of more players is followed up to this turn.
MaxTurns == 8
\* Skips per game the model explores.
MaxSkips == 1
\* Successful backend answers per game the model explores.
MaxBackendOk == 1
\* Calls of startGeneration on one mounted useImageGeneration hook.
MaxGenerations == 2
\* Clicks on a "View AI Journey" button of the reveal screen.
MaxToggles == 1
\* Length of the selection lists generatePersonality is applied to.
MaxSelections == 4
\* Page reloads (the Retry button) in a behaviour that follows the session id.
MaxReloads == 1

\* ------------------------------------------------------- program constants
\* PlayerSetup.addPlayer: playerNames.length < 4
MaxPlayers == 4
\* AIThinkingScreen fallbackResult: 12.5 per non-Skip selection, in halves
FallbackUnitCost == 25

Min(a, b) == IF a < b THEN a ELSE b
Max(a, b) == IF a > b THEN a ELSE b

\* The four fixed rounds: the values of the two choices of each round.
rounds ==
  << <<"Adventure", "Classic">>,
     <<"Light", "Rich">>,
     <<"Smooth", "Crunchy">>,
     <<"Sprinkles", "Caramel">> >>

Flavors == UNION {{rounds[i][1], rounds[i][2]} : i \in DOMAIN rounds}

\* ------------------------------------------------------- inventory hook
\* useIngredientsInventory(Math.max(players.length, 4))
PlayerCount(ps) == Max(Len(ps), 4)

\* loadInventory: ingredient name -> game key
gameMapping ==
  [n \in {"Vanilla extract", "Dark chocolate (70%+ callets)", "Lemons (fresh)",
          "Heavy cream (35-40%)", "Hazelnuts (roasted)", "Mini marshmallows",
          "Sea-salt caramel drizzle (Jack Sparrow)", "Rum flavoring (extract)"} |->
     CASE n = "Vanilla extract" -> "Classic"
       [] n = "Dark chocolate (70%+ callets)" -> "Rich"
       [] n = "Lemons (fresh)" -> "Light"
       [] n = "Heavy cream (35-40%)" -> "Smooth"
       [] n = "Hazelnuts (roasted)" -> "Crunchy"
       [] n = "Mini marshmallows" -> "Sprinkles"
       [] n = "Sea-salt caramel drizzle (Jack Sparrow)" -> "Caramel"
       [] OTHER -> "Adventure"]

\* The fallback / default table (prices in halves of a unit).
fallbackPrice ==
  [f \in Flavors |->
     CASE f = "Adventure" -> 30 [] f = "Classic" -> 20 [] f = "Light" -> 24
       [] f = "Rich" -> 30 [] f = "Smooth" -> 20 [] f = "Crunchy" -> 26
       [] f = "Sprinkles" -> 28 [] OTHER -> 30]

defaultInventory(playerCount) ==
  [f \in Flavors |-> [available |-> playerCount, price |-> fallbackPrice[f]]]

\* gamePrice = Math.round((cost_min || cost_max || 10) * 20); the costs of an
\* ingredient are given in hundredths of a unit, the result is in halves.
gamePrice(ing) ==
  LET base == IF ing.cost_min # 0 THEN ing.cost_min
              ELSE IF ing.cost_max # 0 THEN ing.cost_max ELSE 1000
  IN  2 * ((2 * base + 5) \div 10)

\* The try-branch of loadInventory: transform the answer, merge the fallbacks.
gameInventory(ingredients, playerCount) ==
  LET known == {i \in ingredients : i.ingredient \in DOMAIN gameMapping}
      keys  == {gameMapping[i.ingredient] : i \in known}
      ingOf(k) == CHOOSE i \in known : gameMapping[i.ingredient] = k
  IN  [f \in Flavors |->
        IF f \in keys
        THEN [available |-> Min(ingOf(f).inventory, playerCount * 2),
              price |-> gamePrice(ingOf(f))]
        ELSE defaultInventory(playerCount)[f]]

\* Answers of GET /ingredients the model draws from.
IngredientAnswers ==
  { { [ingredient |-> "Dark chocolate (70%+ callets)", inventory |-> 0,
       cost_min |-> 0, cost_max |-> 50],
      [ingredient |-> "Hazelnuts (roasted)", inventory |-> 0,
       cost_min |-> 65, cost_max |-> 70],
      [ingredient |-> "Rum flavoring (extract)", inventory |-> 20,
       cost_min |-> 62, cost_max |-> 0],
      [ingredient |-> "Whole milk", inventory |-> 3,
       cost_min |-> 10, cost_max |-> 20] } }

\* AIStudio.isAvailable: ingredient && ingredient.available > 0
isAvailable(inv, value) ==
  value \in DOMAIN inv /\ inv[value].available > 0

\* A round screen that takes every click, sold out or not.
roundIsAvailableAlways(inv, value) == value \in DOMAIN inv

\* ImageSelectionRound.isAvailable: the same test, on the inventory prop
roundIsAvailable(inv, value) ==
  value \in DOMAIN inv /\ inv[value].available > 0

\* ------------------------------------------------------- setup screen
Blank == " "
NameInputs == { <<>>, <<Blank>>, <<Blank, "A", Blank>> }

RECURSIVE trimStart(_)
trimStart(s) ==
  IF s # <<>> /\ Head(s) = Blank THEN trimStart(Tail(s)) ELSE s

RECURSIVE trimEnd(_)
trimEnd(s) ==
  IF s # <<>> /\ s[Len(s)] = Blank THEN trimEnd(SubSeq(s, 1, Len(s) - 1)) ELSE s

\* Variant of trim that leaves the blanks at the end.
trimStartOnly(s) == trimStart(s)

\* String.prototype.trim
trim(s) == trimEnd(trimStart(s))

\* playerNames.filter(name => name.trim() !== '')
RECURSIVE validNames(_)
validNames(names) ==
  IF names = <<>> THEN <<>>
  ELSE IF trim(Head(names)) # <<>> THEN <<Head(names)>> \o validNames(Tail(names))
       ELSE validNames(Tail(names))

\* PlayerSetup.startGame: the roster built from the valid names.
newPlayers(names) ==
  LET v == validNames(names)
  IN  [i \in 1..Len(v) |->
        [id |-> i, name |-> trim(v[i]), selections |-> <<>>, totalCost |-> 0,
         aiInteractions |-> <<>>, generatedImageUrl |-> <<>>]]

\* ------------------------------------------------------- AIStudio handlers
\* The AIInteraction built by handleSelection / handleSkip (its texts, drawn at
\* random by the conversation generator, are left out).
aiInteraction(selection, roundIndex) ==
  [selection |-> selection, round |-> roundIndex + 1, enhanced |-> FALSE]

\* The conversation handed to the thinking screen, by what it was generated for.
conversation(selection, roundIndex) ==
  [currentSelection |-> selection, roundNumber |-> roundIndex + 1]

\* A selection charged at the default table's price, not the inventory's.
selectionPlayersDefaultPrice(ps, cur, value, inv, roundIndex) ==
  LET updatedPlayer ==
        [cur EXCEPT !.selections = Append(@, value),
                    !.totalCost = @ + fallbackPrice[value],
                    !.aiInteractions = Append(@, aiInteraction(value, roundIndex))]
  IN  [i \in DOMAIN ps |-> IF ps[i].id = cur.id THEN updatedPlayer ELSE ps[i]]

\* handleSelection, lines 430-443: the roster after an in-stock selection.
selectionPlayers(ps, cur, value, inv, roundIndex) ==
  LET updatedPlayer ==
        [cur EXCEPT !.selections = Append(@, value),
                    !.totalCost = @ + inv[value].price,
                    !.aiInteractions = Append(@, aiInteraction(value, roundIndex))]
  IN  [i \in DOMAIN ps |-> IF ps[i].id = cur.id THEN updatedPlayer ELSE ps[i]]

\* The inventory update of the client-priced variant: one less of the flavor.
selectionInventoryDecreased(inv, value) ==
  [inv EXCEPT ![value].available = @ - 1]

\* handleSelection never touches the inventory ("Inventory updates removed as
\* per Phase 8"): the inventory after an in-stock selection.
selectionInventory(inv, value) == inv

\* A skip that is charged like the cheapest choice of its round.
skipPlayersCharged(ps, index, roundIndex) ==
  LET cur == ps[index + 1]
      updatedPlayer ==
        [cur EXCEPT !.selections = Append(@, "Skip"),
                    !.totalCost = @ + fallbackPrice[rounds[roundIndex + 1][1]],
                    !.aiInteractions = Append(@, aiInteraction("Skip", roundIndex))]
  IN  [ps EXCEPT ![index + 1] = updatedPlayer]

\* A skip that records its interaction but no "Skip" selection.
skipPlayersNoSelection(ps, index, roundIndex) ==
  LET cur == ps[index + 1]
      updatedPlayer ==
        [cur EXCEPT !.aiInteractions = Append(@, aiInteraction("Skip", roundIndex))]
  IN  [ps EXCEPT ![index + 1] = updatedPlayer]

\* handleSkip, lines 392-399: the roster after a skip.
skipPlayers(ps, index, roundIndex) ==
  LET cur == ps[index + 1]
      updatedPlayer ==
        [cur EXCEPT !.selections = Append(@, "Skip"),
                    !.aiInteractions = Append(@, aiInteraction("Skip", roundIndex))]
  IN  [ps EXCEPT ![index + 1] = updatedPlayer]

\* A result update that puts the enhanced response on the player's first
\* interaction instead of the latest one.
updatedByResultEnhancesFirst(player, result) ==
  LET cost == IF result.estimatedCost # <<>> /\ result.estimatedCost[1] # 0
              THEN result.estimatedCost[1] ELSE player.totalCost
      n == Len(player.aiInteractions)
  IN  [player EXCEPT
         !.totalCost = cost,
         !.generatedImageUrl = result.imageUrl,
         !.aiInteractions =
            IF result.enhanced /\ n > 0 THEN [@ EXCEPT ![1].enhanced = TRUE] ELSE @]

\* handleThinkingComplete, lines 456-479: one player under a processing result.
\* `a || b` on an optional number: b when a is absent or 0.
updatedByResult(player, result) ==
  LET cost == IF result.estimatedCost # <<>> /\ result.estimatedCost[1] # 0
              THEN result.estimatedCost[1] ELSE player.totalCost
      n == Len(player.aiInteractions)
  IN  [player EXCEPT
         !.totalCost = cost,
         !.generatedImageUrl = result.imageUrl,
         !.aiInteractions =
            IF result.enhanced /\ n > 0 THEN [@ EXCEPT ![n].enhanced = TRUE] ELSE @]

resultPlayers(ps, cur, result) ==
  [i \in DOMAIN ps |-> IF ps[i].id = cur.id THEN updatedByResult(ps[i], result) ELSE ps[i]]

\* An advance that never moves on to the next player: the round cursor wraps.
nextTurnSamePlayer(playerIndex, roundIndex, nPlayers) ==
  IF roundIndex < Len(rounds) - 1
  THEN [gameState |-> "playing", playerIndex |-> playerIndex,
        roundIndex |-> roundIndex + 1, turnToast |-> FALSE]
  ELSE IF playerIndex < nPlayers - 1
       THEN [gameState |-> "playing", playerIndex |-> playerIndex,
             roundIndex |-> 0, turnToast |-> TRUE]
       ELSE [gameState |-> "reveal", playerIndex |-> playerIndex,
             roundIndex |-> roundIndex, turnToast |-> FALSE]

\* An advance that ends the game one player early.
nextTurnOffByOne(playerIndex, roundIndex, nPlayers) ==
  IF roundIndex < Len(rounds) - 1
  THEN [gameState |-> "playing", playerIndex |-> playerIndex,
        roundIndex |-> roundIndex + 1, turnToast |-> FALSE]
  ELSE IF playerIndex < nPlayers - 2
       THEN [gameState |-> "playing", playerIndex |-> playerIndex + 1,
             roundIndex |-> 0, turnToast |-> TRUE]
       ELSE [gameState |-> "reveal", playerIndex |-> playerIndex,
             roundIndex |-> roundIndex, turnToast |-> FALSE]

\* An advance that sends the next player back to the welcome screen.
nextTurnWelcome(playerIndex, roundIndex, nPlayers) ==
  IF roundIndex < Len(rounds) - 1
  THEN [gameState |-> "playing", playerIndex |-> playerIndex,
        roundIndex |-> roundIndex + 1, turnToast |-> FALSE]
  ELSE IF playerIndex < nPlayers - 1
       THEN [gameState |-> "welcome", playerIndex |-> playerIndex + 1,
             roundIndex |-> 0, turnToast |-> TRUE]
       ELSE [gameState |-> "reveal", playerIndex |-> playerIndex,
             roundIndex |-> roundIndex, turnToast |-> FALSE]

\* An advance that does not reset the round cursor for the next player.
nextTurnNoReset(playerIndex, roundIndex, nPlayers) ==
  IF roundIndex < Len(rounds) - 1
  THEN [gameState |-> "playing", playerIndex |-> playerIndex,
        roundIndex |-> roundIndex + 1, turnToast |-> FALSE]
  ELSE IF playerIndex < nPlayers - 1
       THEN [gameState |-> "playing", playerIndex |-> playerIndex + 1,
             roundIndex |-> roundIndex, turnToast |-> TRUE]
       ELSE [gameState |-> "reveal", playerIndex |-> playerIndex,
             roundIndex |-> roundIndex, turnToast |-> FALSE]

\* handleThinkingComplete, lines 493-506: where the cursors and the state go.
nextTurn(playerIndex, roundIndex, nPlayers) ==
  IF roundIndex < Len(rounds) - 1
  THEN [gameState |-> "playing", playerIndex |-> playerIndex,
        roundIndex |-> roundIndex + 1, turnToast |-> FALSE]
  ELSE IF playerIndex < nPlayers - 1
       THEN [gameState |-> "playing", playerIndex |-> playerIndex + 1,
             roundIndex |-> 0, turnToast |-> TRUE]
       ELSE [gameState |-> "reveal", playerIndex |-> playerIndex,
             roundIndex |-> roundIndex, turnToast |-> FALSE]

\* ------------------------------------------------------- thinking screen
\* A processing result as handleThinkingComplete reads it: the fields it looks
\* at, and `data`, which it never looks at.
resultObject(estimatedCost, imageUrl, enhanced, err, data) ==
  [estimatedCost |-> estimatedCost, imageUrl |-> imageUrl, enhanced |-> enhanced,
   error |-> err, data |-> data]

\* result.data of a successful POST /process-player-game the model draws from.
BackendData ==
  { resultObject(<<0>>, <<>>, FALSE, <<>>, <<>>),
    resultObject(<<14>>, <<>>, TRUE, <<>>, <<>>) }

RECURSIVE nonSkip(_)
nonSkip(selections) ==
  IF selections = <<>> THEN 0
  ELSE (IF Head(selections) # "Skip" THEN 1 ELSE 0) + nonSkip(Tail(selections))

\* catch-branch, lines 125-134: setProcessingResult({ data: fallbackResult })
fallbackCost(selections) == nonSkip(selections) * FallbackUnitCost

fallbackProcessingResult(selections) ==
  resultObject(<<>>, <<>>, FALSE, <<>>, << [estimatedCost |-> fallbackCost(selections)] >>)

\* line 161: onComplete(processingResult || { error })
onCompleteArg(result, err) ==
  IF result # <<>> THEN result[1] ELSE resultObject(<<>>, <<>>, FALSE, err, <<>>)


\* ------------------------------------------------------- useImageGeneration
\* pollForResult: const maxAttempts = 60
maxAttempts == 60
\* pollForResult.poll: setTimeout(poll, 2000), in seconds
PollInterval == 2

\* The hook's state object, as useState creates it and reset() restores it.
initialGenerationState ==
  [isGenerating |-> FALSE, imageUrl |-> <<>>, error |-> <<>>, taskId |-> <<>>]

\* What GET /generate-ice-cream-image can answer with a 2xx status.
TriggerResponses ==
  [success : BOOLEAN, imageUrl : {<<>>, <<"image-1">>},
   taskId : {<<>>, <<"task-1">>}, error : {<<>>, <<"busy">>}]

\* What GET /image-generation-status/<taskId> can answer with a 2xx status, and
\* the call that throws (network failure or a status that is not 2xx).
statusAnswer(status, imageUrl, err) ==
  [thrown |-> FALSE, status |-> status, imageUrl |-> imageUrl, error |-> err]
Pending == statusAnswer("pending", <<>>, <<>>)
StatusAnswers ==
  { Pending,
    statusAnswer("completed", <<"image-2">>, <<>>),
    statusAnswer("completed", <<>>, <<>>),
    statusAnswer("failed", <<>>, <<"no credits">>),
    statusAnswer("failed", <<>>, <<>>) }
ThrownAnswer ==
  [thrown |-> TRUE, status |-> "none", imageUrl |-> <<>>, error |-> <<>>]

\* startGeneration after the trigger call has answered `result`: the state it
\* sets, whether pollForResult is called, and how it ended.
startGeneration(st, result) ==
  IF result.success /\ result.taskId # <<>>
  THEN IF result.imageUrl # <<>>
       THEN [state |-> [st EXCEPT !.taskId = result.taskId,
                                  !.imageUrl = result.imageUrl,
                                  !.isGenerating = FALSE],
             polls |-> FALSE, outcome |-> "immediate"]
       ELSE [state |-> [st EXCEPT !.taskId = result.taskId],
             polls |-> TRUE, outcome |-> "none"]
  ELSE [state |-> [st EXCEPT !.isGenerating = FALSE,
                             !.error = IF result.error # <<>> THEN result.error
                                       ELSE <<"Failed to start image generation">>],
        polls |-> FALSE, outcome |-> "notStarted"]

\* Variant of poll that polls once more than maxAttempts.
pollOneMore(st, att, answer) ==
  IF answer.thrown
  THEN [state |-> [st EXCEPT !.isGenerating = FALSE,
                             !.error = <<"Failed to check image generation status">>],
        timer |-> FALSE, outcome |-> "exception"]
  ELSE IF answer.status = "completed" /\ answer.imageUrl # <<>>
  THEN [state |-> [st EXCEPT !.imageUrl = answer.imageUrl, !.isGenerating = FALSE],
        timer |-> FALSE, outcome |-> "completed"]
  ELSE IF answer.status = "failed"
  THEN [state |-> [st EXCEPT !.isGenerating = FALSE,
                             !.error = IF answer.error # <<>> THEN answer.error
                                       ELSE <<"Image generation failed">>],
        timer |-> FALSE, outcome |-> "failed"]
  ELSE IF att <= maxAttempts
  THEN [state |-> st, timer |-> TRUE, outcome |-> "none"]
  ELSE [state |-> [st EXCEPT !.isGenerating = FALSE,
                             !.error = <<"Image generation timed out">>],
        timer |-> FALSE, outcome |-> "timedOut"]

\* Variant of poll that stops at the first `completed` answer without taking
\* its image.
pollDropsImage(st, att, answer) ==
  IF answer.thrown
  THEN [state |-> [st EXCEPT !.isGenerating = FALSE,
                             !.error = <<"Failed to check image generation status">>],
        timer |-> FALSE, outcome |-> "exception"]
  ELSE IF answer.status = "completed" /\ answer.imageUrl # <<>>
  THEN [state |-> [st EXCEPT !.isGenerating = FALSE],
        timer |-> FALSE, outcome |-> "completed"]
  ELSE IF answer.status = "failed"
  THEN [state |-> [st EXCEPT !.isGenerating = FALSE,
                             !.error = IF answer.error # <<>> THEN answer.error
                                       ELSE <<"Image generation failed">>],
        timer |-> FALSE, outcome |-> "failed"]
  ELSE IF att < maxAttempts
  THEN [state |-> st, timer |-> TRUE, outcome |-> "none"]
  ELSE [state |-> [st EXCEPT !.isGenerating = FALSE,
                             !.error = <<"Image generation timed out">>],
        timer |-> FALSE, outcome |-> "timedOut"]

\* Variant of poll that treats a thrown status call like a `pending` answer.
pollRetriesThrown(st, att, answer) ==
  IF ~answer.thrown /\ answer.status = "completed" /\ answer.imageUrl # <<>>
  THEN [state |-> [st EXCEPT !.imageUrl = answer.imageUrl, !.isGenerating = FALSE],
        timer |-> FALSE, outcome |-> "completed"]
  ELSE IF ~answer.thrown /\ answer.status = "failed"
  THEN [state |-> [st EXCEPT !.isGenerating = FALSE,
                             !.error = IF answer.error # <<>> THEN answer.error
                                       ELSE <<"Image generation failed">>],
        timer |-> FALSE, outcome |-> "failed"]
  ELSE IF att < maxAttempts
  THEN [state |-> st, timer |-> TRUE, outcome |-> "none"]
  ELSE [state |-> [st EXCEPT !.isGenerating = FALSE,
                             !.error = <<"Image generation timed out">>],
        timer |-> FALSE, outcome |-> "timedOut"]

\* pollForResult.poll after its status call (the att-th of this polling) has
\* answered or thrown: the state it sets, whether it arms the 2 s timer for the
\* next poll, and how the polling ended if it did.
poll(st, att, answer) ==
  IF answer.thrown
  THEN [state |-> [st EXCEPT !.isGenerating = FALSE,
                             !.error = <<"Failed to check image generation status">>],
        timer |-> FALSE, outcome |-> "exception"]
  ELSE IF answer.status = "completed" /\ answer.imageUrl # <<>>
  THEN [state |-> [st EXCEPT !.imageUrl = answer.imageUrl, !.isGenerating = FALSE],
        timer |-> FALSE, outcome |-> "completed"]
  ELSE IF answer.status = "failed"
  THEN [state |-> [st EXCEPT !.isGenerating = FALSE,
                             !.error = IF answer.error # <<>> THEN answer.error
                                       ELSE <<"Image generation failed">>],
        timer |-> FALSE, outcome |-> "failed"]
  ELSE IF att < maxAttempts
  THEN [state |-> st, timer |-> TRUE, outcome |-> "none"]
  ELSE [state |-> [st EXCEPT !.isGenerating = FALSE,
                             !.error = <<"Image generation timed out">>],
        timer |-> FALSE, outcome |-> "timedOut"]


\* ------------------------------------------------------- FinalReveal
\* ImageGenerationDisplay: const maxRetries = 3
maxRetries == 3
\* ImageGenerationDisplay: retryDelay = 10000 and maxWaitTime = 120000, in seconds
retryDelay == 10
maxWaitTime == 120

\* The time one trigger request can take, in seconds: no time worth counting,
\* or as long as the whole of maxWaitTime.
Latencies == {0, maxWaitTime}

\* What one trigger request of attemptFetch can come back with.
FetchOutcomes == {"image", "noImage", "thrown"}

\* The state of a freshly mounted ImageGenerationDisplay of `player`, whose
\* mount effect has not run yet.
mountedDisplay(player) ==
  [imageUrl |-> player.generatedImageUrl, isLoading |-> FALSE, error |-> <<>>,
   retryCount |-> 0, effectPending |-> TRUE]

\* The positions an attemptFetch chain can be suspended at: in the trigger
\* request of attempt n, or in the 10 s wait after it.
FetchPositions == [attemptNumber : 1..maxRetries, pc : {"request", "wait"}]

\* Date.now() - startTime when the request of attempt n comes back after
\* `latency`: the waits before it, and the time the request took.
elapsedTime(attemptNumber, latency) == (attemptNumber - 1) * retryDelay + latency

\* attemptFetch(attemptNumber) after its request has come back: whether it goes
\* on to the 10 s wait, and what it sets on its ImageGenerationDisplay.
attemptFetch(d, attemptNumber, outcome, latency) ==
  IF outcome = "image"
  THEN [retry |-> FALSE,
        display |-> [d EXCEPT !.imageUrl = <<"image-3">>, !.isLoading = FALSE]]
  ELSE IF attemptNumber < maxRetries /\ elapsedTime(attemptNumber, latency) < maxWaitTime
  THEN [retry |-> TRUE, display |-> [d EXCEPT !.retryCount = attemptNumber]]
  ELSE [retry |-> FALSE,
        display |-> [d EXCEPT
          !.isLoading = FALSE,
          !.error =
            IF outcome = "thrown" THEN <<"Failed to load generated image">>
            ELSE IF elapsedTime(attemptNumber, latency) >= maxWaitTime
            THEN <<"Image generation is taking longer than expected. Please refresh to try again.">>
            ELSE <<"Image generation failed after multiple attempts">>]]

\* The attemptFetch chains of unmounted displays: how many are at each position.
noOrphans == [c \in FetchPositions |-> 0]
orphaned(orph, ch) ==
  IF ch = <<>> THEN orph ELSE [orph EXCEPT ![ch[1]] = @ + 1]

\* ------------------------------------------------------- generatePersonality
\* A description is its text and the number of skips its added sentence names
\* (0: no sentence added).  Names and emojis are written without their glyphs.
EmptyIceCreamCone ==
  [name |-> "Empty Ice Cream Cone", emoji |-> "see-no-evil broken-heart",
   description |-> [text |-> "Looks like you're as empty as this empty ice cream cone!",
                    skips |-> 0],
   color |-> "#95a5a6",
   insights |-> << <<"You're a master of avoidance!">>,
                   <<"Decision paralysis or pure genius? We may never know!">>,
                   <<"You keep everyone guessing with your mysterious ways!">>,
                   <<"Maybe you're just too cool for regular ice cream choices!">> >>]

MysteriousSkipper ==
  [name |-> "The Mysterious Skipper", emoji |-> "shrug sparkles",
   description |-> [text |-> "You're beautifully unpredictable!", skips |-> 0],
   color |-> "#9b59b6",
   insights |-> << <<"You're wonderfully unpredictable!">>,
                   <<"Master of keeping people on their toes!">>,
                   <<"Your indecision is a form of art!">>,
                   <<"Rules are more like... guidelines to you!">> >>]

PureMystery ==
  [name |-> "Pure Mystery", emoji |-> "question dizzy",
   description |-> [text |-> "You're an enigma wrapped in a riddle!", skips |-> 0],
   color |-> "#34495e",
   insights |-> << <<"You're completely unknowable! And that's fascinating!">> >>]

\* generateCombinationPersonality: the table, by key.
combinations ==
  ( <<"Adventure", "Rich", "Crunchy", "Sprinkles">> :>
      [name |-> "Rainbow Hero Crunch", emoji |-> "superhero ice-cream",
       description |-> "Bold adventurer with a sweet, colorful soul", color |-> "#ff6b6b"] )
  @@
  ( <<"Adventure", "Rich", "Crunchy", "Caramel">> :>
      [name |-> "Caramel Warrior Blast", emoji |-> "swords ice-cream",
       description |-> "Fierce adventurer with refined taste", color |-> "#f39c12"] )
  @@
  ( <<"Classic", "Light", "Smooth", "Sprinkles">> :>
      [name |-> "Classic Rainbow Dream", emoji |-> "crown ice-cream",
       description |-> "Elegant soul with a playful heart", color |-> "#e91e63"] )
  @@
  ( <<"Classic", "Light", "Smooth", "Caramel">> :>
      [name |-> "Golden Elegance Swirl", emoji |-> "princess ice-cream",
       description |-> "Timeless beauty with sophisticated taste", color |-> "#ffd700"] )

defaultCombination == <<"Classic", "Light", "Smooth", "Caramel">>

\* String.prototype.toLowerCase on the flavor tags.
toLowerCase ==
  [f \in Flavors |->
     CASE f = "Adventure" -> "adventure" [] f = "Classic" -> "classic"
       [] f = "Light" -> "light"         [] f = "Rich" -> "rich"
       [] f = "Smooth" -> "smooth"       [] f = "Crunchy" -> "crunchy"
       [] f = "Sprinkles" -> "sprinkles" [] f = "Caramel" -> "caramel"]

\* Variant of combinationKey that joins the four tags in the opposite order.
combinationKeyReversed(style, sweetness, texture, topping) ==
  <<topping, texture, sweetness, style>>

\* `${style}-${sweetness}-${texture}-${topping}`: no tag holds a "-", so the
\* string is the four tags in this order.
combinationKey(style, sweetness, texture, topping) ==
  <<style, sweetness, texture, topping>>

generateCombinationPersonality(style, sweetness, texture, topping, isPartiallyRandom, skipCount) ==
  LET key == combinationKey(style, sweetness, texture, topping)
      personality == IF key \in DOMAIN combinations THEN combinations[key]
                     ELSE combinations[defaultCombination]
  IN  [name |-> personality.name,
       emoji |-> personality.emoji,
       description |->
         [text |-> personality.description,
          skips |-> IF isPartiallyRandom /\ skipCount > 0 THEN skipCount ELSE 0],
       color |-> personality.color,
       insights |->
         << <<style, sweetness, texture,
              IF style = "Adventure" THEN "loves bold experiences"
              ELSE "appreciates timeless beauty">>,
            <<toLowerCase[sweetness],
              IF sweetness = "Rich" THEN "embrace intensity and depth"
              ELSE "value balance and freshness">>,
            <<toLowerCase[texture],
              IF texture = "Smooth" THEN "appreciate refinement and elegance"
              ELSE "enjoy surprises and complexity">>,
            <<toLowerCase[topping],
              IF topping = "Sprinkles" THEN "joy and playfulness"
              ELSE "sophistication and warmth">> >>
         \o (IF isPartiallyRandom
             THEN << <<"skips added unpredictability", skipCount>> >>
             ELSE << >>)]

\* playerSelections.filter(s => s === 'Skip').length
skipCountOf(playerSelections) ==
  Len(SelectSeq(playerSelections, LAMBDA x : x = "Skip"))

\* Variant of allSkipped that never holds.
allSkippedNever(playerSelections) == FALSE

\* playerSelections.every(s => s === 'Skip')
allSkipped(playerSelections) ==
  \A i \in DOMAIN playerSelections : playerSelections[i] = "Skip"

\* Variant of mostlySkipped that asks for one more skip.
mostlySkippedOneMore(playerSelections) ==
  2 * skipCountOf(playerSelections) > Len(playerSelections) + 1

\* skipCount > playerSelections.length / 2
mostlySkipped(playerSelections) ==
  2 * skipCountOf(playerSelections) > Len(playerSelections)

\* generatePersonality; randomFlavors are the flavors its Math.random draws
\* pick, in the order they are drawn.
generatePersonality(playerSelections, randomFlavors) ==
  LET validSelections == SelectSeq(playerSelections, LAMBDA x : x # "Skip")
      filledSelections ==
        validSelections \o SubSeq(randomFlavors, 1, Len(rounds) - Len(validSelections))
  IN  IF allSkipped(playerSelections) THEN EmptyIceCreamCone
      ELSE IF mostlySkipped(playerSelections) THEN MysteriousSkipper
      ELSE IF Len(validSelections) > 0 /\ Len(validSelections) < 4
      THEN generateCombinationPersonality(filledSelections[1], filledSelections[2],
                                          filledSelections[3], filledSelections[4],
                                          TRUE, skipCountOf(playerSelections))
      ELSE IF Len(validSelections) = 0 THEN PureMystery
      ELSE generateCombinationPersonality(validSelections[1], validSelections[2],
                                          validSelections[3], validSelections[4],
                                          FALSE, skipCountOf(playerSelections))

\* How many flavors generatePersonality draws for a list.
drawsNeeded(playerSelections) ==
  LET n == Len(playerSelections) - skipCountOf(playerSelections) IN
    IF ~allSkipped(playerSelections) /\ ~mostlySkipped(playerSelections) /\ n > 0 /\ n < 4
    THEN 4 - n ELSE 0

\* ------------------------------------------------------- state
VARIABLES
  isLoading, inventoryError, inventory,        \* useIngredientsInventory
  gameState, players, currentPlayerIndex,      \* AIStudio
  currentRoundIndex, currentThinking,
  playerNames, isStarting, pendingPlayers,     \* PlayerSetup (and its 1 s timer)
  isSelecting, selectedChoice,                 \* ImageSelectionRound (and its 600 ms timer)
  apiPhase, processingResult, error,           \* AIThinkingScreen
  completeArg,                                 \* ... its pending 1 s onComplete timeout
  storedPlayers,                               \* localStorage['iceCreamGamePlayers']
  toasts, lastOp,                              \* what the last handler raised / was
  advances, skipsUsed, backendOkUsed,          \* counters
  playedAgain                                  \* handlePlayAgain has run since the load

\* The session id AIStudio creates when it mounts (line 69), as the number of
\* page loads before it: ids are made of the time and a random part, so two
\* loads never share one.  And the image-generation requests the backend has
\* been sent by the reveal screen: for each, whether handlePlayAgain had run
\* when it was sent and the session id it carried.
VARIABLES
  gameSessionId, sentSessions

\* AIThinkingScreen with its timers on a clock (time is counted in units of
\* 200 ms): how many of its progress steps are through and the time left of
\* the 800 ms wait before the next; the time left of every armed completion
\* timer and, for every pending 1 s timeout set by a completion timer, the time
\* left and the value it will pass to onComplete; the calls of onComplete since
\* the thinking state was entered and the value the last of them passed.
VARIABLES
  stepsDone, stepTimer, completeTimers, innerTimeouts, onCompleteCalls, advanceArg

\* useImageGeneration: the hook's state object; the attempts counter of the
\* running pollForResult; where startGeneration / poll is suspended ("idle",
\* "trigger": trigger call in flight, "status": status call in flight, "timer":
\* the 2 s timer is armed); and what is observed of the running polling: the
\* seconds spent in its timers, its status calls, how many of them answered
\* `pending`, and how the last startGeneration ended.
VARIABLES
  state, attempts, pollPc,
  waited, statusCalls, pendingAnswers, pollOutcome, generations

\* Whether the component that uses the hook is still mounted.
VARIABLES
  hookMounted

\* FinalReveal: the player whose card is on the reveal screen (absent while the
\* screen is not mounted); the component's state and the position of its mount
\* effect, 500 ms timer and save request; the state of the mounted
\* ImageGenerationDisplay of that player; the attemptFetch chain of that display
\* and the chains of displays unmounted since; the trigger requests sent for the
\* player so far; the clicks on the journey button.
VARIABLES
  revealPlayer, reveal, display, fetchChain, orphanChains, triggerRequests, toggles

\* generatePersonality: the selection list it is applied to, and the personality
\* its last call returned (absent before the first call).
VARIABLES
  playerSelections, personality

\* FinalReveal's game data, by the personality it holds for the player on the
\* card: the gameData state, the copy sent to the backend by saveGameResults and
\* the copy written by downloadGameData (each absent until it exists).
VARIABLES
  gameDataPersonality, savedPersonality, downloadedPersonality

hookVars   == <<isLoading, inventoryError, inventory>>
studioVars == <<gameState, players, currentPlayerIndex, currentRoundIndex, currentThinking>>
setupVars  == <<playerNames, isStarting, pendingPlayers>>
roundVars  == <<isSelecting, selectedChoice>>
thinkVars  == <<apiPhase, processingResult, error, completeArg>>
countVars  == <<advances, skipsUsed, backendOkUsed>>
sessionVars == <<gameSessionId, sentSessions>>
timerVars == <<stepsDone, stepTimer, completeTimers, innerTimeouts, onCompleteCalls,
              advanceArg>>
gameVars == <<hookVars, studioVars, setupVars, roundVars, thinkVars, storedPlayers,
              toasts, lastOp, countVars, playedAgain, sessionVars, timerVars>>

genVars == <<state, attempts, pollPc, waited, statusCalls, pendingAnswers, pollOutcome,
            generations, hookMounted>>
revealVars == <<revealPlayer, reveal, display, fetchChain, orphanChains, triggerRequests,
               toggles>>
gameDataVars == <<gameDataPersonality, savedPersonality, downloadedPersonality>>
personalityVars == <<playerSelections, personality, gameDataVars>>
auxVars == <<genVars, revealVars, personalityVars>>
vars == <<gameVars, auxVars>>

currentPlayer == players[currentPlayerIndex + 1]
hasCurrentPlayer == currentPlayerIndex + 1 \in DOMAIN players

\* What AIStudio renders (lines 82-108 and 539-591).
Screen ==
  IF isLoading THEN "loading"
  ELSE IF inventoryError # <<>> THEN "error"
  ELSE IF gameState = "setup" THEN "setup"
  ELSE IF gameState = "welcome" THEN "welcome"
  ELSE IF gameState = "playing" /\ hasCurrentPlayer THEN "playing"
  ELSE IF gameState = "thinking" /\ currentThinking # <<>> /\ hasCurrentPlayer THEN "thinking"
  ELSE IF gameState = "reveal" THEN "reveal"
  ELSE "blank"

\* The state of a freshly mounted PlayerSetup / ImageSelectionRound / AIThinkingScreen.
setupMounted == playerNames' = << <<>> >> /\ isStarting' = FALSE /\ pendingPlayers' = <<>>
roundMounted == isSelecting' = FALSE /\ selectedChoice' = <<>>
thinkMounted == apiPhase' = "steps" /\ processingResult' = <<>> /\ error' = <<>>
                /\ completeArg' = <<>>
thinkUnmounted == apiPhase' = "off" /\ processingResult' = <<>> /\ error' = <<>>
                  /\ completeArg' = <<>>

\* The clocked thinking screen is not in use.
ClockOff ==
  /\ stepsDone = 0 /\ stepTimer = <<>>
  /\ completeTimers = {} /\ innerTimeouts = {}
  /\ onCompleteCalls = 0 /\ advanceArg = <<>>

GameInit ==
  /\ isLoading = TRUE /\ inventoryError = <<>> /\ inventory = <<>>
  /\ gameState = "setup" /\ players = <<>>
  /\ currentPlayerIndex = 0 /\ currentRoundIndex = 0 /\ currentThinking = <<>>
  /\ playerNames = << <<>> >> /\ isStarting = FALSE /\ pendingPlayers = <<>>
  /\ isSelecting = FALSE /\ selectedChoice = <<>>
  /\ apiPhase = "off" /\ processingResult = <<>> /\ error = <<>> /\ completeArg = <<>>
  /\ storedPlayers = <<>>
  /\ toasts = {} /\ lastOp = "init"
  /\ advances = 0 /\ skipsUsed = 0 /\ backendOkUsed = 0
  /\ playedAgain = FALSE
  /\ gameSessionId = 0 /\ sentSessions = {}
  /\ ClockOff

GenerationInit ==
  /\ state = initialGenerationState
  /\ attempts = 0 /\ pollPc = "idle"
  /\ waited = 0 /\ statusCalls = 0 /\ pendingAnswers = 0
  /\ pollOutcome = "none" /\ generations = 0
  /\ hookMounted = TRUE

\* FinalReveal is not on screen.
RevealUnmounted ==
  /\ revealPlayer = <<>>
  /\ reveal = [isRevealed |-> FALSE, showInteractions |-> <<>>, isSavingData |-> FALSE,
               gameData |-> FALSE, pc |-> "off"]
  /\ display = <<>>
  /\ fetchChain = <<>> /\ orphanChains = noOrphans
  /\ triggerRequests = 0 /\ toggles = 0

\* No personality has been asked for.
NoGameData ==
  gameDataPersonality = <<>> /\ savedPersonality = <<>> /\ downloadedPersonality = <<>>

PersonalityIdle == playerSelections = <<>> /\ personality = <<>> /\ NoGameData

Init == GameInit /\ GenerationInit /\ RevealUnmounted /\ PersonalityIdle

\* ------------------------------------------------------- actions
\* loadInventory resolves: GET /ingredients answered.
LoadInventoryOk(ingredients) ==
  /\ isLoading
  /\ inventory' = gameInventory(ingredients, PlayerCount(players))
  /\ isLoading' = FALSE
  /\ inventoryError' = <<>>
  /\ toasts' = {} /\ lastOp' = "loadInventory"
  /\ UNCHANGED <<studioVars, setupVars, roundVars, thinkVars, storedPlayers, countVars>>
  /\ UNCHANGED <<auxVars, playedAgain, sessionVars, timerVars>>

\* loadInventory rejects: the catch and finally branches.
LoadInventoryFail ==
  /\ isLoading
  /\ inventoryError' = <<"HTTP error! status: 500">>
  /\ inventory' = defaultInventory(PlayerCount(players))
  /\ isLoading' = FALSE
  /\ toasts' = {"Failed to load ingredients from server. Using default inventory."}
  /\ lastOp' = "loadInventoryFailed"
  /\ UNCHANGED <<studioVars, setupVars, roundVars, thinkVars, storedPlayers, countVars>>
  /\ UNCHANGED <<auxVars, playedAgain, sessionVars, timerVars>>

\* The Retry button of the failure screen: window.location.reload().  Every
\* component state starts over; localStorage survives.
RetryReload ==
  /\ Screen = "error"
  /\ isLoading' = TRUE /\ inventoryError' = <<>> /\ inventory' = <<>>
  /\ gameState' = "setup" /\ players' = <<>>
  /\ currentPlayerIndex' = 0 /\ currentRoundIndex' = 0 /\ currentThinking' = <<>>
  /\ setupMounted /\ roundMounted /\ thinkUnmounted
  /\ toasts' = {} /\ lastOp' = "reload"
  /\ advances' = 0 /\ skipsUsed' = 0 /\ backendOkUsed' = 0
  /\ UNCHANGED storedPlayers
  /\ playedAgain' = FALSE
  /\ UNCHANGED <<auxVars, sessionVars, timerVars>>

\* PlayerSetup.addPlayer
AddPlayer ==
  /\ Screen = "setup"
  /\ Len(playerNames) < MaxPlayers
  /\ playerNames' = Append(playerNames, <<>>)
  /\ toasts' = {} /\ lastOp' = "addPlayer"
  /\ UNCHANGED <<hookVars, studioVars, isStarting, pendingPlayers, roundVars, thinkVars,
                 storedPlayers, countVars>>
  /\ UNCHANGED <<auxVars, playedAgain, sessionVars, timerVars>>

\* addPlayer while the setup screen holds fewer than MaxP name fields.
AddPlayerWithinBound == Len(playerNames) < MaxP /\ AddPlayer

\* PlayerSetup.removePlayer
RemovePlayer(index) ==
  /\ Screen = "setup"
  /\ Len(playerNames) > 1
  /\ playerNames' = [i \in 1..(Len(playerNames) - 1) |->
                       IF i < index + 1 THEN playerNames[i] ELSE playerNames[i + 1]]
  /\ toasts' = {} /\ lastOp' = "removePlayer"
  /\ UNCHANGED <<hookVars, studioVars, isStarting, pendingPlayers, roundVars, thinkVars,
                 storedPlayers, countVars>>
  /\ UNCHANGED <<auxVars, playedAgain, sessionVars, timerVars>>

\* PlayerSetup.updatePlayerName
UpdatePlayerName(index, name) ==
  /\ Screen = "setup"
  /\ playerNames[index + 1] # name
  /\ playerNames' = [playerNames EXCEPT ![index + 1] = name]
  /\ toasts' = {} /\ lastOp' = "updatePlayerName"
  /\ UNCHANGED <<hookVars, studioVars, isStarting, pendingPlayers, roundVars, thinkVars,
                 storedPlayers, countVars>>
  /\ UNCHANGED <<auxVars, playedAgain, sessionVars, timerVars>>

\* PlayerSetup.startGame, from the button (disabled while starting).
StartGame ==
  /\ Screen = "setup"
  /\ ~isStarting
  /\ IF Len(validNames(playerNames)) = 0
     THEN UNCHANGED <<isStarting, pendingPlayers, storedPlayers>>
     ELSE /\ isStarting' = TRUE
          /\ pendingPlayers' = <<newPlayers(playerNames)>>
          /\ storedPlayers' = <<newPlayers(playerNames)>>
  /\ toasts' = {} /\ lastOp' = "startGame"
  /\ UNCHANGED <<hookVars, studioVars, playerNames, roundVars, thinkVars, countVars>>
  /\ UNCHANGED <<auxVars, playedAgain, sessionVars, timerVars>>

\* The 1 s timer of startGame fires: onPlayersReady = handlePlayersReady.
HandlePlayersReady ==
  /\ pendingPlayers # <<>>
  /\ players' = pendingPlayers[1]
  /\ gameState' = "welcome"
  /\ currentPlayerIndex' = 0 /\ currentRoundIndex' = 0
  /\ setupMounted
  /\ toasts' = {} /\ lastOp' = "handlePlayersReady"
  /\ UNCHANGED <<hookVars, currentThinking, roundVars, thinkVars, storedPlayers, countVars>>
  /\ UNCHANGED <<auxVars, playedAgain, sessionVars, timerVars>>

\* WelcomeScreen's button: handleStartGame.
HandleStartGame ==
  /\ Screen = "welcome"
  /\ gameState' = "playing"
  /\ currentRoundIndex' = 0 /\ currentPlayerIndex' = 0
  /\ roundMounted
  /\ advances' = 0 /\ skipsUsed' = 0 /\ backendOkUsed' = 0
  /\ toasts' = {} /\ lastOp' = "handleStartGame"
  /\ UNCHANGED <<hookVars, players, currentThinking, setupVars, thinkVars, storedPlayers>>
  /\ UNCHANGED <<auxVars, playedAgain, sessionVars, timerVars>>

\* ImageSelectionRound.handleSelect: a click on one of the two choices.
HandleSelect(value) ==
  /\ Screen = "playing"
  /\ advances < MaxTurns
  /\ value \in {rounds[currentRoundIndex + 1][1], rounds[currentRoundIndex + 1][2]}
  /\ IF isSelecting \/ ~roundIsAvailable(inventory, value)
     THEN UNCHANGED roundVars
     ELSE selectedChoice' = <<value>> /\ isSelecting' = TRUE
  /\ toasts' = {} /\ lastOp' = "handleSelect"
  /\ UNCHANGED <<hookVars, studioVars, setupVars, thinkVars, storedPlayers, countVars>>
  /\ UNCHANGED <<auxVars, playedAgain, sessionVars, timerVars>>

\* The 600 ms timer of handleSelect fires: onSelect = handleSelection.
HandleSelection ==
  /\ isSelecting
  /\ LET value == selectedChoice[1] IN
     IF ~hasCurrentPlayer \/ ~isAvailable(inventory, value)
     THEN /\ toasts' = {"This ingredient is out of stock!"}
          /\ UNCHANGED <<hookVars, studioVars, roundVars, thinkVars, storedPlayers>>
     ELSE /\ players' = selectionPlayers(players, currentPlayer, value, inventory,
                                         currentRoundIndex)
          /\ inventory' = selectionInventory(inventory, value)
          /\ currentThinking' = <<conversation(value, currentRoundIndex)>>
          /\ gameState' = "thinking"
          /\ storedPlayers' = <<players'>>
          /\ roundMounted /\ thinkMounted
          /\ toasts' = {}
          /\ UNCHANGED <<isLoading, inventoryError, currentPlayerIndex, currentRoundIndex>>
  /\ lastOp' = "handleSelection"
  /\ UNCHANGED <<setupVars, countVars>>
  /\ UNCHANGED <<auxVars, playedAgain, sessionVars, timerVars>>

\* The skip button (disabled while a selection is pending): handleSkip.
HandleSkip ==
  /\ Screen = "playing"
  /\ ~isSelecting
  /\ advances < MaxTurns
  /\ skipsUsed < MaxSkips
  /\ players' = skipPlayers(players, currentPlayerIndex, currentRoundIndex)
  /\ currentThinking' = <<conversation("Skip", currentRoundIndex)>>
  /\ gameState' = "thinking"
  /\ roundMounted /\ thinkMounted
  /\ skipsUsed' = skipsUsed + 1
  /\ toasts' = {} /\ lastOp' = "handleSkip"
  /\ UNCHANGED <<hookVars, currentPlayerIndex, currentRoundIndex, setupVars, storedPlayers,
                 advances, backendOkUsed>>
  /\ UNCHANGED <<auxVars, playedAgain, sessionVars, timerVars>>

\* The thinking screen's progress steps are through (6 x 800 ms, each of which
\* restarts the completion timer): POST /process-player-game is sent.
ProcessPlayerGameSent ==
  /\ Screen = "thinking"
  /\ apiPhase = "steps"
  /\ apiPhase' = "calling"
  /\ toasts' = {} /\ lastOp' = "processPlayerGame"
  /\ UNCHANGED <<hookVars, studioVars, setupVars, roundVars, processingResult, error,
                 completeArg, storedPlayers, countVars>>
  /\ UNCHANGED <<auxVars, playedAgain, sessionVars, timerVars>>

\* The call answers with success = true.
BackendSuccess(data) ==
  /\ Screen = "thinking"
  /\ apiPhase = "calling"
  /\ backendOkUsed < MaxBackendOk
  /\ processingResult' = <<data>>
  /\ apiPhase' = "done"
  /\ backendOkUsed' = backendOkUsed + 1
  /\ toasts' = {} /\ lastOp' = "backendSuccess"
  /\ UNCHANGED <<hookVars, studioVars, setupVars, roundVars, error, completeArg,
                 storedPlayers, advances, skipsUsed>>
  /\ UNCHANGED <<auxVars, playedAgain, sessionVars, timerVars>>

\* The call throws or answers with success = false: the catch branch.
BackendFailure ==
  /\ Screen = "thinking"
  /\ apiPhase = "calling"
  /\ error' = <<"Processing failed">>
  /\ processingResult' = <<fallbackProcessingResult(currentPlayer.selections)>>
  /\ apiPhase' = "done"
  /\ toasts' = {} /\ lastOp' = "backendFailure"
  /\ UNCHANGED <<hookVars, studioVars, setupVars, roundVars, completeArg, storedPlayers,
                 countVars>>
  /\ UNCHANGED <<auxVars, playedAgain, sessionVars, timerVars>>

\* The completion timer fires (6 s after the last change of the steps, the
\* result or the error, hence never before the call is sent and only once per
\* mount): the 1 s timeout that calls onComplete is set, with the result and
\* error of the render the timer belongs to.
CompleteTimerFires ==
  /\ Screen = "thinking"
  /\ apiPhase # "steps"
  /\ completeArg = <<>>
  /\ completeArg' = <<onCompleteArg(processingResult, error)>>
  /\ toasts' = {} /\ lastOp' = "completeTimer"
  /\ UNCHANGED <<hookVars, studioVars, setupVars, roundVars, apiPhase, processingResult,
                 error, storedPlayers, countVars>>
  /\ UNCHANGED <<auxVars, playedAgain, sessionVars, timerVars>>

\* The 1 s timeout fires: onComplete = handleThinkingComplete.  Its argument is
\* always an object (processingResult || { error }), so `if (processingResult)`
\* is taken on every call.
HandleThinkingComplete ==
  /\ completeArg # <<>>
  /\ LET result == completeArg[1]
         next == nextTurn(currentPlayerIndex, currentRoundIndex, Len(players))
     IN  /\ players' = resultPlayers(players, currentPlayer, result)
         /\ gameState' = next.gameState
         /\ currentPlayerIndex' = next.playerIndex
         /\ currentRoundIndex' = next.roundIndex
         /\ toasts' = (IF result.error # <<>>
                       THEN {"AI processing had issues, but continuing with game"} ELSE {})
                      \cup (IF next.turnToast THEN {"next player's turn"} ELSE {})
  /\ thinkUnmounted /\ roundMounted
  /\ advances' = advances + 1
  /\ lastOp' = "handleThinkingComplete"
  /\ UNCHANGED <<hookVars, currentThinking, setupVars, storedPlayers, skipsUsed,
                 backendOkUsed>>
  /\ UNCHANGED <<auxVars, playedAgain, sessionVars, timerVars>>

\* Variant of HandlePlayAgain that goes back to `setup` with the roster and the
\* persisted snapshot of the game before.
HandlePlayAgainKeepsRoster ==
  /\ Screen = "reveal"
  /\ gameState' = "setup"
  /\ currentPlayerIndex' = 0 /\ currentRoundIndex' = 0
  /\ currentThinking' = <<>>
  /\ setupMounted
  /\ toasts' = {} /\ lastOp' = "handlePlayAgain"
  /\ playedAgain' = TRUE
  /\ UNCHANGED <<hookVars, players, storedPlayers, roundVars, thinkVars, countVars>>
  /\ UNCHANGED <<auxVars, sessionVars, timerVars>>

\* FinalReveal's play-again button: handlePlayAgain.
HandlePlayAgain ==
  /\ Screen = "reveal"
  /\ storedPlayers' = <<>>
  /\ gameState' = "setup"
  /\ players' = <<>>
  /\ currentPlayerIndex' = 0 /\ currentRoundIndex' = 0
  /\ currentThinking' = <<>>
  /\ setupMounted
  /\ toasts' = {} /\ lastOp' = "handlePlayAgain"
  /\ UNCHANGED <<hookVars, roundVars, thinkVars, countVars>>
  /\ playedAgain' = TRUE
  /\ UNCHANGED <<auxVars, sessionVars, timerVars>>

Next ==
  \/ \E a \in IngredientAnswers : LoadInventoryOk(a)
  \/ LoadInventoryFail
  \/ RetryReload
  \/ AddPlayerWithinBound
  \/ \E i \in 0..(Len(playerNames) - 1) : RemovePlayer(i)
  \/ \E i \in 0..(Len(playerNames) - 1), n \in NameInputs : UpdatePlayerName(i, n)
  \/ StartGame
  \/ HandlePlayersReady
  \/ HandleStartGame
  \/ \E v \in Flavors : HandleSelect(v)
  \/ HandleSelection
  \/ HandleSkip
  \/ ProcessPlayerGameSent
  \/ \E d \in BackendData : BackendSuccess(d)
  \/ BackendFailure
  \/ CompleteTimerFires
  \/ HandleThinkingComplete
  \/ HandlePlayAgain

Spec == Init /\ [][Next]_vars

\* ------------------------------------------------------- the session id
\* The Retry button of the failure screen, with the session id followed: the
\* page is loaded again and AIStudio's useState initializer makes a new id.
\* (Spec's RetryReload leaves the id alone: nothing in Spec reads it.)
RetryReloadNewSession ==
  /\ Screen = "error"
  /\ gameSessionId < MaxReloads
  /\ isLoading' = TRUE /\ inventoryError' = <<>> /\ inventory' = <<>>
  /\ gameState' = "setup" /\ players' = <<>>
  /\ currentPlayerIndex' = 0 /\ currentRoundIndex' = 0 /\ currentThinking' = <<>>
  /\ setupMounted /\ roundMounted /\ thinkUnmounted
  /\ toasts' = {} /\ lastOp' = "reload"
  /\ advances' = 0 /\ skipsUsed' = 0 /\ backendOkUsed' = 0
  /\ UNCHANGED storedPlayers
  /\ playedAgain' = FALSE
  /\ gameSessionId' = gameSessionId + 1
  /\ UNCHANGED <<auxVars, sentSessions, timerVars>>

\* A player's image display on the reveal screen sends its request (players
\* who skipped every round get a picture instead of a display):
\* triggerImageGeneration(player.name, sessionId), with sessionId the
\* gameSessionId prop.
TriggerImageGeneration(i) ==
  /\ Screen = "reveal"
  /\ players[i].generatedImageUrl = <<>>
  /\ \E r \in DOMAIN players[i].selections : players[i].selections[r] # "Skip"
  /\ sentSessions' = sentSessions \cup
                       {[playedAgain |-> playedAgain, session |-> gameSessionId]}
  /\ sentSessions' # sentSessions
  /\ toasts' = {} /\ lastOp' = "triggerImageGeneration"
  /\ UNCHANGED <<hookVars, studioVars, setupVars, roundVars, thinkVars, storedPlayers,
                 countVars, gameSessionId>>
  /\ UNCHANGED <<auxVars, playedAgain, timerVars>>

NextSession ==
  \/ \E a \in IngredientAnswers : LoadInventoryOk(a)
  \/ LoadInventoryFail
  \/ RetryReloadNewSession
  \/ AddPlayerWithinBound
  \/ \E i \in 0..(Len(playerNames) - 1) : RemovePlayer(i)
  \/ \E i \in 0..(Len(playerNames) - 1), n \in NameInputs : UpdatePlayerName(i, n)
  \/ StartGame
  \/ HandlePlayersReady
  \/ HandleStartGame
  \/ \E v \in Flavors : HandleSelect(v)
  \/ HandleSelection
  \/ HandleSkip
  \/ ProcessPlayerGameSent
  \/ \E d \in BackendData : BackendSuccess(d)
  \/ BackendFailure
  \/ CompleteTimerFires
  \/ HandleThinkingComplete
  \/ HandlePlayAgain
  \/ \E i \in DOMAIN players : TriggerImageGeneration(i)

SpecSession == Init /\ [][NextSession]_vars

\* ------------------------------------------------------- AIThinkingScreen on a clock
\* Delays in units of 200 ms: the 800 ms between two progress steps (line 78),
\* the `duration` AIStudio passes (6000 ms, line 574) and the 1000 ms between
\* the completion timer and the call of onComplete (line 162).
StepDelay == 4
duration == 30
OnCompleteDelay == 5
\* progressSteps.length (lines 67-74)
ProgressSteps == 6

\* A cleanup that leaves the completion timers armed.
cleanupKeepsTimers(timers) == timers

\* The cleanup of the completion effect, lines 165-168: clearTimeout(completeTimer).
cleanup(timers) == {}

\* The completion effect runs again after one of its dependencies
\* (phases.length, processingResult, error) has changed: cleanup, then a new
\* completion timer.
effectAgain(timers) == cleanup(timers) \cup {duration}

\* AIThinkingScreen is on screen.
thinkingMounted == Screen = "thinking"

\* The clock of a freshly mounted AIThinkingScreen, after its two effects have
\* run: the progress steps have begun and the completion timer is armed (the
\* "connecting" step set at once arms it again at the same instant).
clockStarts ==
  /\ stepsDone' = 0 /\ stepTimer' = <<StepDelay>>
  /\ completeTimers' = completeTimers \cup {duration}
  /\ onCompleteCalls' = 0 /\ advanceArg' = <<>>

\* A game of one player, "A", who has just skipped the first round: the
\* thinking state has been entered and the screen's effects have run.
InitThinking ==
  /\ isLoading = FALSE /\ inventoryError = <<>>
  /\ \E a \in IngredientAnswers : inventory = gameInventory(a, PlayerCount(<<>>))
  /\ gameState = "thinking"
  /\ players = skipPlayers(newPlayers(<< <<"A">> >>), 0, 0)
  /\ currentPlayerIndex = 0 /\ currentRoundIndex = 0
  /\ currentThinking = <<conversation("Skip", 0)>>
  /\ playerNames = << <<>> >> /\ isStarting = FALSE /\ pendingPlayers = <<>>
  /\ isSelecting = FALSE /\ selectedChoice = <<>>
  /\ apiPhase = "steps" /\ processingResult = <<>> /\ error = <<>> /\ completeArg = <<>>
  /\ storedPlayers = <<newPlayers(<< <<"A">> >>)>>
  /\ toasts = {} /\ lastOp = "handleSkip"
  /\ advances = 0 /\ skipsUsed = 1 /\ backendOkUsed = 0
  /\ playedAgain = FALSE
  /\ gameSessionId = 0 /\ sentSessions = {}
  /\ GenerationInit /\ RevealUnmounted /\ PersonalityIdle
  /\ stepsDone = 0 /\ stepTimer = <<StepDelay>>
  /\ completeTimers = {duration} /\ innerTimeouts = {}
  /\ onCompleteCalls = 0 /\ advanceArg = <<>>

\* 200 ms pass; no timer is due.
Tick ==
  /\ stepTimer # <<0>>
  /\ 0 \notin completeTimers
  /\ \A t \in innerTimeouts : t.remaining # 0
  /\ stepTimer # <<>> \/ completeTimers # {} \/ innerTimeouts # {}
  /\ stepTimer' = IF stepTimer = <<>> THEN <<>> ELSE <<stepTimer[1] - 1>>
  /\ completeTimers' = {t - 1 : t \in completeTimers}
  /\ innerTimeouts' = {[t EXCEPT !.remaining = @ - 1] : t \in innerTimeouts}
  /\ UNCHANGED <<stepsDone, onCompleteCalls, advanceArg>>
  /\ UNCHANGED <<hookVars, studioVars, setupVars, roundVars, thinkVars, storedPlayers,
                 toasts, lastOp, countVars, playedAgain, sessionVars, auxVars>>

\* An 800 ms wait of processPlayerDataRealTime is over (lines 77-87): the next
\* progress step is shown, which changes phases.length, so the completion
\* effect runs again; after the last step processPlayerGame is called.
ProgressStep ==
  /\ stepTimer = <<0>>
  /\ thinkingMounted
  /\ stepsDone' = stepsDone + 1
  /\ IF stepsDone + 1 < ProgressSteps
     THEN stepTimer' = <<StepDelay>> /\ UNCHANGED apiPhase
     ELSE stepTimer' = <<>> /\ apiPhase' = "calling"
  /\ completeTimers' = effectAgain(completeTimers)
  /\ toasts' = {} /\ lastOp' = "progressStep"
  /\ UNCHANGED <<innerTimeouts, onCompleteCalls, advanceArg>>
  /\ UNCHANGED <<hookVars, studioVars, setupVars, roundVars, processingResult, error,
                 completeArg, storedPlayers, countVars, playedAgain, sessionVars, auxVars>>

\* processPlayerGame answers with success = true (lines 89-105): the result is
\* stored, so the completion effect runs again.
ProcessingSucceeds(data) ==
  /\ thinkingMounted
  /\ apiPhase = "calling"
  /\ apiPhase' = "done"
  /\ processingResult' = <<data>>
  /\ completeTimers' = effectAgain(completeTimers)
  /\ toasts' = {} /\ lastOp' = "backendSuccess"
  /\ UNCHANGED <<stepsDone, stepTimer, innerTimeouts, onCompleteCalls, advanceArg>>
  /\ UNCHANGED <<hookVars, studioVars, setupVars, roundVars, error, completeArg,
                 storedPlayers, countVars, playedAgain, sessionVars, auxVars>>

\* processPlayerGame throws or answers with success = false (lines 110-135):
\* the error and the fallback are stored, so the completion effect runs again.
ProcessingFails ==
  /\ thinkingMounted
  /\ apiPhase = "calling"
  /\ apiPhase' = "done"
  /\ error' = <<"Processing failed">>
  /\ processingResult' = <<fallbackProcessingResult(currentPlayer.selections)>>
  /\ completeTimers' = effectAgain(completeTimers)
  /\ toasts' = {} /\ lastOp' = "backendFailure"
  /\ UNCHANGED <<stepsDone, stepTimer, innerTimeouts, onCompleteCalls, advanceArg>>
  /\ UNCHANGED <<hookVars, studioVars, setupVars, roundVars, completeArg, storedPlayers,
                 countVars, playedAgain, sessionVars, auxVars>>

\* A completion timer fires (lines 153-163): the 1 s timeout is set.  What it
\* will pass to onComplete are the processingResult and error of the render
\* the effect ran in, which are still the current ones, as every change of them
\* runs the effect again.
CompletionTimer ==
  /\ 0 \in completeTimers
  /\ completeTimers' = completeTimers \ {0}
  /\ innerTimeouts' = innerTimeouts \cup
       {[remaining |-> OnCompleteDelay, arg |-> onCompleteArg(processingResult, error)]}
  /\ toasts' = {} /\ lastOp' = "completeTimer"
  /\ UNCHANGED <<stepsDone, stepTimer, onCompleteCalls, advanceArg>>
  /\ UNCHANGED <<hookVars, studioVars, setupVars, roundVars, thinkVars, storedPlayers,
                 countVars, playedAgain, sessionVars, auxVars>>

\* A 1 s timeout fires (lines 159-162): onComplete, which is AIStudio's
\* handleThinkingComplete, is called with the value the timeout was set with.
\* The game leaves `thinking`, so the screen is unmounted and the cleanup of its
\* completion effect runs; what processPlayerDataRealTime still sets after
\* that is set on an unmounted component and is not followed.
OnCompleteTimeout(t) ==
  /\ t \in innerTimeouts /\ t.remaining = 0
  /\ hasCurrentPlayer
  /\ innerTimeouts' = innerTimeouts \ {t}
  /\ onCompleteCalls' = onCompleteCalls + 1
  /\ advanceArg' = <<t.arg>>
  /\ LET next == nextTurn(currentPlayerIndex, currentRoundIndex, Len(players))
     IN  /\ players' = resultPlayers(players, currentPlayer, t.arg)
         /\ gameState' = next.gameState
         /\ currentPlayerIndex' = next.playerIndex
         /\ currentRoundIndex' = next.roundIndex
         /\ toasts' = (IF t.arg.error # <<>>
                       THEN {"AI processing had issues, but continuing with game"} ELSE {})
                      \cup (IF next.turnToast THEN {"next player's turn"} ELSE {})
  /\ thinkUnmounted /\ roundMounted
  /\ completeTimers' = IF thinkingMounted THEN cleanup(completeTimers) ELSE completeTimers
  /\ stepTimer' = <<>>
  /\ advances' = advances + 1
  /\ lastOp' = "handleThinkingComplete"
  /\ UNCHANGED <<hookVars, currentThinking, setupVars, storedPlayers, skipsUsed,
                 backendOkUsed, stepsDone, playedAgain, sessionVars, auxVars>>

\* handleSkip on the round screen the advance has led to: the thinking state is
\* entered again.  Timers and timeouts of the screen before, if any were left,
\* stay armed.
HandleSkipOnClock ==
  /\ Screen = "playing"
  /\ players' = skipPlayers(players, currentPlayerIndex, currentRoundIndex)
  /\ currentThinking' = <<conversation("Skip", currentRoundIndex)>>
  /\ gameState' = "thinking"
  /\ roundMounted /\ thinkMounted
  /\ clockStarts
  /\ skipsUsed' = skipsUsed + 1
  /\ toasts' = {} /\ lastOp' = "handleSkip"
  /\ UNCHANGED <<hookVars, currentPlayerIndex, currentRoundIndex, setupVars, storedPlayers,
                 advances, backendOkUsed, innerTimeouts, playedAgain, sessionVars, auxVars>>

NextThinking ==
  \/ Tick
  \/ ProgressStep
  \/ \E d \in BackendData : ProcessingSucceeds(d)
  \/ ProcessingFails
  \/ CompletionTimer
  \/ \E t \in innerTimeouts : OnCompleteTimeout(t)
  \/ HandleSkipOnClock

SpecThinking == InitThinking /\ [][NextThinking]_vars

\* Time passes and due timers fire; nothing makes the backend answer.
FairThinking ==
  /\ WF_vars(Tick)
  /\ WF_vars(ProgressStep)
  /\ WF_vars(CompletionTimer)
  /\ WF_vars(\E t \in innerTimeouts : OnCompleteTimeout(t))

SpecThinkingFair == SpecThinking /\ FairThinking

\* ------------------------------------------------------- useImageGeneration
\* startGeneration up to its await: called by the component that uses the hook
\* (or by the autoStart effect) while no earlier call is still running.  What
\* is observed of the polling starts over with the call.
StartGeneration ==
  /\ hookMounted
  /\ pollPc = "idle"
  /\ generations < MaxGenerations
  /\ state' = [state EXCEPT !.isGenerating = TRUE, !.error = <<>>]
  /\ pollPc' = "trigger"
  /\ pollOutcome' = "none"
  /\ generations' = generations + 1
  /\ attempts' = 0 /\ waited' = 0 /\ statusCalls' = 0 /\ pendingAnswers' = 0
  /\ UNCHANGED <<gameVars, revealVars, personalityVars, hookMounted>>

\* The trigger call answers: the rest of startGeneration and, when it calls
\* pollForResult, the first poll up to its await (attempts++ and the status
\* call).
TriggerAnswers(result) ==
  /\ pollPc = "trigger"
  /\ LET r == startGeneration(state, result) IN
       /\ state' = r.state
       /\ pollOutcome' = r.outcome
       /\ IF r.polls
          THEN /\ attempts' = 1 /\ statusCalls' = 1 /\ pendingAnswers' = 0 /\ waited' = 0
               /\ pollPc' = "status"
          ELSE /\ pollPc' = "idle"
               /\ UNCHANGED <<attempts, waited, statusCalls, pendingAnswers>>
  /\ UNCHANGED generations
  /\ UNCHANGED <<gameVars, revealVars, personalityVars, hookMounted>>

\* The trigger call throws: the catch branch of startGeneration.
TriggerThrows ==
  /\ pollPc = "trigger"
  /\ state' = [state EXCEPT !.isGenerating = FALSE,
                            !.error = <<"Failed to trigger image generation">>]
  /\ pollOutcome' = "triggerThrew"
  /\ pollPc' = "idle"
  /\ UNCHANGED <<attempts, waited, statusCalls, pendingAnswers, generations>>
  /\ UNCHANGED <<gameVars, revealVars, personalityVars, hookMounted>>

\* The status call of the running poll answers or throws: the rest of poll.
StatusReturns(answer) ==
  /\ pollPc = "status"
  /\ LET r == poll(state, attempts, answer) IN
       /\ state' = r.state
       /\ pollOutcome' = r.outcome
       /\ pollPc' = IF r.timer THEN "timer" ELSE "idle"
  /\ pendingAnswers' = IF answer = Pending THEN pendingAnswers + 1 ELSE pendingAnswers
  /\ UNCHANGED <<attempts, waited, statusCalls, generations>>
  /\ UNCHANGED <<gameVars, revealVars, personalityVars, hookMounted>>

\* The 2 s timer fires: poll up to its await (attempts++ and the status call).
PollTimerFires ==
  /\ pollPc = "timer"
  /\ attempts' = attempts + 1
  /\ statusCalls' = statusCalls + 1
  /\ waited' = waited + PollInterval
  /\ pollPc' = "status"
  /\ UNCHANGED <<state, pendingAnswers, pollOutcome, generations>>
  /\ UNCHANGED <<gameVars, revealVars, personalityVars, hookMounted>>

\* reset(), whenever the component that uses the hook calls it.
Reset ==
  /\ hookMounted
  /\ state # initialGenerationState
  /\ state' = initialGenerationState
  /\ UNCHANGED <<attempts, pollPc, waited, statusCalls, pendingAnswers, pollOutcome,
                 generations>>
  /\ UNCHANGED <<gameVars, revealVars, personalityVars, hookMounted>>

NextImageGeneration ==
  \/ StartGeneration
  \/ \E r \in TriggerResponses : TriggerAnswers(r)
  \/ TriggerThrows
  \/ \E a \in StatusAnswers \cup {ThrownAnswer} : StatusReturns(a)
  \/ PollTimerFires
  \/ Reset

SpecImageGeneration == Init /\ [][NextImageGeneration]_vars

\* The component that uses the hook is unmounted.  The hook registers no
\* cleanup (its only effect, lines 368-372, returns nothing) and poll keeps no
\* handle of its timer, so the call in flight and the armed timer stay as they
\* are; `state` goes on showing what the closures of the unmounted hook set.
UnmountHook ==
  /\ hookMounted
  /\ hookMounted' = FALSE
  /\ UNCHANGED <<state, attempts, pollPc, waited, statusCalls, pendingAnswers,
                 pollOutcome, generations>>
  /\ UNCHANGED <<gameVars, revealVars, personalityVars>>

NextHookLifetime ==
  \/ StartGeneration
  \/ \E r \in TriggerResponses : TriggerAnswers(r)
  \/ TriggerThrows
  \/ \E a \in StatusAnswers \cup {ThrownAnswer} : StatusReturns(a)
  \/ PollTimerFires
  \/ Reset
  \/ UnmountHook

SpecHookLifetime == Init /\ [][NextHookLifetime]_vars

\* ------------------------------------------------------- FinalReveal
\* The players the reveal screen can be handed: with and without an image URL
\* from the last process-player-game answer.
RevealPlayers ==
  { [id |-> "player-1", name |-> <<"A">>, generatedImageUrl |-> u] :
      u \in {<<>>, <<"image-0">>} }

\* FinalReveal has rendered for the first time, with one card; no effect has
\* run yet.
RevealMounted ==
  /\ \E pl \in RevealPlayers :
       /\ revealPlayer = <<pl>>
       /\ display = <<mountedDisplay(pl)>>
  /\ reveal = [isRevealed |-> FALSE, showInteractions |-> <<>>, isSavingData |-> FALSE,
               gameData |-> FALSE, pc |-> "mounted"]
  /\ fetchChain = <<>> /\ orphanChains = noOrphans
  /\ triggerRequests = 0 /\ toggles = 0

InitFinalReveal == GameInit /\ GenerationInit /\ RevealMounted /\ PersonalityIdle

\* A render of FinalReveal: ImageGenerationDisplay is a function created by the
\* render, so the display of the render before is unmounted and a new one is
\* mounted, with fresh state.  The chain of the old display runs on.
rendersAgain ==
  /\ display' = <<mountedDisplay(revealPlayer[1])>>
  /\ orphanChains' = orphaned(orphanChains, fetchChain)
  /\ fetchChain' = <<>>

\* The mount effect of the display: fetchGeneratedImage up to the first request.
\* Effects run before any other event is handled.
FetchGeneratedImage ==
  /\ display # <<>> /\ display[1].effectPending
  /\ IF display[1].imageUrl # <<>>
     THEN /\ display' = <<[display[1] EXCEPT !.effectPending = FALSE]>>
          /\ UNCHANGED <<fetchChain, triggerRequests>>
     ELSE /\ display' = <<[display[1] EXCEPT !.effectPending = FALSE,
                                             !.isLoading = TRUE, !.error = <<>>]>>
          /\ fetchChain' = <<[attemptNumber |-> 1, pc |-> "request"]>>
          /\ triggerRequests' = triggerRequests + 1
  /\ UNCHANGED <<revealPlayer, reveal, orphanChains, toggles>>
  /\ UNCHANGED <<gameVars, genVars, personalityVars>>

\* The mount effect of FinalReveal: setGameData and the 500 ms timer.
RevealMountEffect ==
  /\ reveal.pc = "mounted"
  /\ ~display[1].effectPending
  /\ reveal' = [reveal EXCEPT !.gameData = TRUE, !.pc = "timer"]
  /\ rendersAgain
  /\ UNCHANGED <<revealPlayer, triggerRequests, toggles>>
  /\ UNCHANGED <<gameVars, genVars, personalityVars>>

\* The 500 ms timer fires: setIsRevealed(true) and saveGameDataToBackend up to
\* its request.
RevealTimerFires ==
  /\ reveal.pc = "timer"
  /\ ~display[1].effectPending
  /\ reveal' = [reveal EXCEPT !.isRevealed = TRUE, !.isSavingData = TRUE, !.pc = "saving"]
  /\ rendersAgain
  /\ UNCHANGED <<revealPlayer, triggerRequests, toggles>>
  /\ UNCHANGED <<gameVars, genVars, personalityVars>>

\* saveGameResults answers or throws: the finally branch.
SaveGameDataReturns ==
  /\ reveal.pc = "saving"
  /\ ~display[1].effectPending
  /\ reveal' = [reveal EXCEPT !.isSavingData = FALSE, !.pc = "saved"]
  /\ rendersAgain
  /\ UNCHANGED <<revealPlayer, triggerRequests, toggles>>
  /\ UNCHANGED <<gameVars, genVars, personalityVars>>

\* A click on the card's journey button: setShowInteractions.
ToggleInteractions ==
  /\ reveal.pc # "off"
  /\ ~display[1].effectPending
  /\ toggles < MaxToggles
  /\ reveal' = [reveal EXCEPT !.showInteractions =
                  IF @ = <<revealPlayer[1].id>> THEN <<>> ELSE <<revealPlayer[1].id>>]
  /\ toggles' = toggles + 1
  /\ rendersAgain
  /\ UNCHANGED <<revealPlayer, triggerRequests>>
  /\ UNCHANGED <<gameVars, genVars, personalityVars>>

\* The trigger request of the mounted display's chain comes back.
FetchReturns(outcome, latency) ==
  /\ fetchChain # <<>> /\ fetchChain[1].pc = "request"
  /\ ~display[1].effectPending
  /\ LET r == attemptFetch(display[1], fetchChain[1].attemptNumber, outcome, latency) IN
       /\ display' = <<r.display>>
       /\ fetchChain' = IF r.retry THEN <<[fetchChain[1] EXCEPT !.pc = "wait"]>> ELSE <<>>
  /\ UNCHANGED <<revealPlayer, reveal, orphanChains, triggerRequests, toggles>>
  /\ UNCHANGED <<gameVars, genVars, personalityVars>>

\* The 10 s wait of the mounted display's chain is over: the next attempt.
RetryDelayOver ==
  /\ fetchChain # <<>> /\ fetchChain[1].pc = "wait"
  /\ ~display[1].effectPending
  /\ fetchChain' = <<[attemptNumber |-> fetchChain[1].attemptNumber + 1, pc |-> "request"]>>
  /\ triggerRequests' = triggerRequests + 1
  /\ UNCHANGED <<revealPlayer, reveal, display, orphanChains, toggles>>
  /\ UNCHANGED <<gameVars, genVars, personalityVars>>

\* The trigger request of a chain of an unmounted display comes back: what it
\* sets is set on a component that is gone.
OrphanFetchReturns(c, outcome, latency) ==
  /\ c.pc = "request" /\ orphanChains[c] > 0
  /\ ~display[1].effectPending
  /\ LET r == attemptFetch(mountedDisplay(revealPlayer[1]), c.attemptNumber, outcome,
                           latency)
         w == [c EXCEPT !.pc = "wait"]
     IN  orphanChains' =
           IF r.retry THEN [orphanChains EXCEPT ![c] = @ - 1, ![w] = @ + 1]
           ELSE [orphanChains EXCEPT ![c] = @ - 1]
  /\ UNCHANGED <<revealPlayer, reveal, display, fetchChain, triggerRequests, toggles>>
  /\ UNCHANGED <<gameVars, genVars, personalityVars>>

\* The 10 s wait of a chain of an unmounted display is over: the next attempt.
OrphanRetryDelayOver(c) ==
  /\ c.pc = "wait" /\ orphanChains[c] > 0
  /\ ~display[1].effectPending
  /\ LET n == [attemptNumber |-> c.attemptNumber + 1, pc |-> "request"] IN
       orphanChains' = [orphanChains EXCEPT ![c] = @ - 1, ![n] = @ + 1]
  /\ triggerRequests' = triggerRequests + 1
  /\ UNCHANGED <<revealPlayer, reveal, display, fetchChain, toggles>>
  /\ UNCHANGED <<gameVars, genVars, personalityVars>>

NextFinalReveal ==
  \/ FetchGeneratedImage
  \/ RevealMountEffect
  \/ RevealTimerFires
  \/ SaveGameDataReturns
  \/ ToggleInteractions
  \/ \E o \in FetchOutcomes, l \in Latencies : FetchReturns(o, l)
  \/ RetryDelayOver
  \/ \E c \in FetchPositions, o \in FetchOutcomes, l \in Latencies : OrphanFetchReturns(c, o, l)
  \/ \E c \in FetchPositions : OrphanRetryDelayOver(c)

SpecFinalReveal == InitFinalReveal /\ [][NextFinalReveal]_vars

\* ------------------------------------------------------- generatePersonality
\* The selection lists a player can hold: up to MaxSelections entries, each a
\* flavor tag or "Skip".
SelectionLists ==
  UNION { [1..n -> Flavors \cup {"Skip"}] : n \in 0..MaxSelections }

InitPersonality ==
  /\ GameInit /\ GenerationInit /\ RevealUnmounted
  /\ playerSelections \in SelectionLists
  /\ personality = <<>>
  /\ NoGameData

\* A call of generatePersonality(player.selections), as a render of the reveal
\* screen makes for every player.  The function reads nothing but its argument
\* and its draws, so one call per list shows all it can return.
GeneratePersonality ==
  /\ personality = <<>>
  /\ \E randomFlavors \in [1..drawsNeeded(playerSelections) -> Flavors] :
       personality' = <<generatePersonality(playerSelections, randomFlavors)>>
  /\ UNCHANGED <<playerSelections, gameDataVars>>
  /\ UNCHANGED <<gameVars, genVars, revealVars>>

NextPersonality == GeneratePersonality

SpecPersonality == InitPersonality /\ [][NextPersonality]_vars

\* ------------------------------------------------------- FinalReveal game data
\* The selection lists a finished game leaves a player with: one of the round's
\* two choices, or "Skip", per round.
GameSelectionLists ==
  { sel \in [1..Len(rounds) -> Flavors \cup {"Skip"}] :
      \A r \in 1..Len(rounds) : sel[r] \in {rounds[r][1], rounds[r][2], "Skip"} }

\* The flavors the draws of line 245 are let to pick here, out of the 8 of
\* availableFlavors.
DrawnFlavors == {"Classic", "Crunchy", "Sprinkles"}

\* The draws of one generatePersonality call for the player on the card.
Draws == [1..drawsNeeded(playerSelections) -> DrawnFlavors]

\* FinalReveal is about to render for the first time, with one player.
InitGameData ==
  /\ GameInit /\ GenerationInit /\ RevealUnmounted
  /\ playerSelections \in GameSelectionLists
  /\ personality = <<>>
  /\ NoGameData

\* A render of FinalReveal (the first one, or one caused by a state change of
\* the image displays or the journey buttons): line 669 computes the
\* personality on the card anew.
RenderReveal ==
  /\ \E shown \in Draws :
       personality' = <<generatePersonality(playerSelections, shown)>>
  /\ UNCHANGED <<playerSelections, gameDataVars>>
  /\ UNCHANGED <<gameVars, genVars, revealVars>>

\* The mount effect, lines 596-608: generatedGameData is built with a call of
\* generatePersonality of its own, and setGameData renders the screen again.
GenerateGameData ==
  /\ personality # <<>> /\ gameDataPersonality = <<>>
  /\ \E embedded \in Draws :
       gameDataPersonality' = <<generatePersonality(playerSelections, embedded)>>
  /\ \E shown \in Draws :
       personality' = <<generatePersonality(playerSelections, shown)>>
  /\ UNCHANGED <<playerSelections, savedPersonality, downloadedPersonality>>
  /\ UNCHANGED <<gameVars, genVars, revealVars>>

\* The 500 ms timer, lines 610-614: setIsRevealed(true) renders the screen
\* again and saveGameDataToBackend sends generatedGameData.
SaveGameDataToBackend ==
  /\ gameDataPersonality # <<>> /\ savedPersonality = <<>>
  /\ savedPersonality' = gameDataPersonality
  /\ \E shown \in Draws :
       personality' = <<generatePersonality(playerSelections, shown)>>
  /\ UNCHANGED <<playerSelections, gameDataPersonality, downloadedPersonality>>
  /\ UNCHANGED <<gameVars, genVars, revealVars>>

\* The download button, lines 635-649: the gameData state is written to a file.
DownloadGameData ==
  /\ gameDataPersonality # <<>> /\ downloadedPersonality = <<>>
  /\ downloadedPersonality' = gameDataPersonality
  /\ UNCHANGED <<playerSelections, personality, gameDataPersonality, savedPersonality>>
  /\ UNCHANGED <<gameVars, genVars, revealVars>>

NextGameData ==
  \/ RenderReveal
  \/ GenerateGameData
  \/ SaveGameDataToBackend
  \/ DownloadGameData

SpecGameData == InitGameData /\ [][NextGameData]_vars

\* ------------------------------------------------------- PlayerSetup alone
\* The setup screen from the load of the page to the hand-over of the roster,
\* with every name field the component allows.
NextSetup ==
  \/ \E a \in IngredientAnswers : LoadInventoryOk(a)
  \/ AddPlayer
  \/ \E i \in 0..(Len(playerNames) - 1) : RemovePlayer(i)
  \/ \E i \in 0..(Len(playerNames) - 1), n \in NameInputs : UpdatePlayerName(i, n)
  \/ StartGame
  \/ HandlePlayersReady

SpecSetup == Init /\ [][NextSetup]_vars

TypeOK ==
  /\ gameState \in {"setup", "welcome", "playing", "thinking", "reveal"}
  /\ currentPlayerIndex \in 0..MaxPlayers
  /\ currentRoundIndex \in 0..Len(rounds)

\* ------------------------------------------------------- properties
OutOfStockToast == "This ingredient is out of stock!"

\* C1: from handleStartGame on, with P players and the 4 rounds, the game is in
\* `reveal` exactly when handleThinkingComplete has run 4 * P times, and never
\* after fewer runs.
C1_RevealOnLastAdvance ==
  gameState \in {"playing", "thinking", "reveal"} =>
    /\ advances <= Len(rounds) * Len(players)
    /\ (gameState = "reveal") <=> (advances = Len(rounds) * Len(players))

C1_Witness ==
  gameState = "reveal" /\ Len(players) = 2 /\ advances = 8

\* C2: gameState changes only along setup->welcome, welcome->playing,
\* playing->thinking, thinking->playing, thinking->reveal and reveal->setup.
GameEdges ==
  { <<"setup", "welcome">>, <<"welcome", "playing">>, <<"playing", "thinking">>,
    <<"thinking", "playing">>, <<"thinking", "reveal">>, <<"reveal", "setup">> }

C2_OnlyGameEdges ==
  [][gameState' # gameState => <<gameState, gameState'>> \in GameEdges]_vars

C2_Witness ==
  lastOp = "handlePlayAgain" /\ gameState = "setup" /\ advances = 8

\* C3: in every reachable state every player has at most 4 selections.
C3_AtMostFourSelections ==
  \A i \in DOMAIN players : Len(players[i].selections) <= Len(rounds)

C3_Witness ==
  /\ gameState = "reveal" /\ Len(players) = 2
  /\ \A i \in DOMAIN players : Len(players[i].selections) = 4

\* C4: turns are strictly sequential: a round is offered to a player only when
\* all earlier rounds of that player are recorded and their thinking phases are
\* over, and a player has no selection before the player before has all 4.
C4_TurnsSequential ==
  /\ (gameState = "playing" /\ hasCurrentPlayer) =>
       /\ Len(currentPlayer.selections) = currentRoundIndex
       /\ advances = Len(rounds) * currentPlayerIndex + currentRoundIndex
  /\ \A i \in DOMAIN players :
       (i > 1 /\ Len(players[i].selections) > 0) =>
         Len(players[i - 1].selections) = Len(rounds)

C4_Witness ==
  /\ gameState = "playing" /\ currentPlayerIndex = 1 /\ currentRoundIndex = 1
  /\ Len(players[2].selections) = 1

\* C5: an in-stock handleSelection appends exactly the chosen value to the
\* current player's selections, adds exactly the inventory price of that value
\* to the player's totalCost, and moves the game to `thinking`.
C5_SelectionAppendsAndCharges ==
  [][(/\ lastOp' = "handleSelection"
      /\ selectedChoice # <<>>
      /\ hasCurrentPlayer
      /\ inventory[selectedChoice[1]].available > 0)
     => /\ players'[currentPlayerIndex + 1].selections =
             Append(currentPlayer.selections, selectedChoice[1])
        /\ players'[currentPlayerIndex + 1].totalCost =
             currentPlayer.totalCost + inventory[selectedChoice[1]].price
        /\ gameState' = "thinking"]_vars

C5_Witness ==
  /\ lastOp = "handleSelection" /\ gameState = "thinking"
  /\ currentPlayer.selections = <<"Adventure", "Light">>
  /\ currentPlayer.totalCost = inventory["Adventure"].price + inventory["Light"].price

\* A click on a sold-out choice of the round on screen.
SoldOutClick ==
  \E v \in {rounds[currentRoundIndex + 1][1], rounds[currentRoundIndex + 1][2]} :
    inventory[v].available = 0 /\ HandleSelect(v)

C7_SkipFrame ==
  [][(lastOp' = "handleSkip" /\ hasCurrentPlayer)
     => /\ players'[currentPlayerIndex + 1].selections =
             Append(currentPlayer.selections, "Skip")
        /\ players'[currentPlayerIndex + 1].totalCost = currentPlayer.totalCost
        /\ inventory' = inventory
        /\ Len(players'[currentPlayerIndex + 1].aiInteractions) =
             Len(currentPlayer.aiInteractions) + 1
        /\ SubSeq(players'[currentPlayerIndex + 1].aiInteractions, 1,
                  Len(currentPlayer.aiInteractions)) = currentPlayer.aiInteractions
        /\ gameState' = "thinking"]_vars

C7_Witness ==
  /\ lastOp = "handleSkip" /\ gameState = "thinking"
  /\ currentPlayer.selections = <<"Adventure", "Skip">>
  /\ currentPlayer.totalCost = inventory["Adventure"].price

\* C8 as stated: an in-stock handleSelection lowers inventory[tag].available of
\* the chosen flavor by exactly one, never below 0.
C8_SelectionDecrementsInventory ==
  [][(/\ lastOp' = "handleSelection"
      /\ selectedChoice # <<>>
      /\ hasCurrentPlayer
      /\ inventory[selectedChoice[1]].available > 0)
     => /\ inventory'[selectedChoice[1]].available =
             inventory[selectedChoice[1]].available - 1
        /\ inventory'[selectedChoice[1]].available >= 0]_vars

\* C8 amended: an in-stock handleSelection of this variant leaves the local
\* inventory as it is: the chosen flavor's available is the same positive
\* number after the call as before.
C8_SelectionKeepsInventory ==
  [][(/\ lastOp' = "handleSelection"
      /\ selectedChoice # <<>>
      /\ hasCurrentPlayer
      /\ inventory[selectedChoice[1]].available > 0)
     => /\ inventory' = inventory
        /\ inventory'[selectedChoice[1]].available > 0]_vars

C8_Witness ==
  /\ lastOp = "handleSelection" /\ gameState = "thinking"
  /\ currentPlayer.selections = <<"Adventure">>
  /\ inventory["Adventure"].available = 8

\* C9 as stated: a failed ingredient request is not fatal: the 8-flavor
\* fallback inventory is installed and the screen of the game state (the setup
\* screen first) is what is shown, so the game can be played without a reload.
C9_LoadFailureKeepsGamePlayable ==
  lastOp = "loadInventoryFailed" =>
    /\ inventory = defaultInventory(4)
    /\ Screen = "setup"

\* C10 as stated: when the process-player-game call has failed and the thinking
\* screen completes with its fallback result, the game advances and the current
\* player's totalCost becomes the fallback cost, 12.5 per non-Skip selection.
C10_FallbackCostApplied ==
  [][(/\ lastOp' = "handleThinkingComplete"
      /\ completeArg # <<>>
      /\ completeArg[1].data # <<>>)
     => /\ gameState' \in {"playing", "reveal"}
        /\ players'[currentPlayerIndex + 1].totalCost =
             nonSkip(currentPlayer.selections) * FallbackUnitCost]_vars

\* ------------------------------------------- properties of useImageGeneration
\* Every status call of the running polling has answered `pending`.
AlwaysPending == pendingAnswers = statusCalls

C12_ImageUrlCompletesAtOnce ==
  [][\A r \in TriggerResponses :
       (r.success /\ TriggerAnswers(r))
       => /\ r.imageUrl # <<>>
             => /\ state'.imageUrl = r.imageUrl
                /\ ~state'.isGenerating
                /\ state'.error = <<>>
                /\ pollPc' = "idle"
          /\ (r.imageUrl = <<>> /\ r.taskId # <<>>)
             => /\ pollPc' = "status" /\ statusCalls' = 1
                /\ state'.isGenerating]_vars

\* C13: with a status endpoint that answers `pending` to the first 3 calls and
\* then `completed` with a URL, the polling ends completed with that URL in the
\* hook's state, after exactly 4 status calls and no more than 4 polling
\* intervals spent in its timers, and no status call is made afterwards.
C13_CompletedOnFourthCall ==
  /\ []((pendingAnswers = statusCalls /\ statusCalls \in 1..3)
        => (pollPc = "timer" /\ pollOutcome = "none"))
  /\ [][\A a \in StatusAnswers :
          (/\ pollPc = "status" /\ statusCalls = 4 /\ pendingAnswers = 3
           /\ a.status = "completed" /\ a.imageUrl # <<>>
           /\ StatusReturns(a))
          => /\ pollOutcome' = "completed"
             /\ state'.imageUrl = a.imageUrl
             /\ ~state'.isGenerating
             /\ statusCalls' = 4
             /\ waited' <= 4 * PollInterval
             /\ pollPc' = "idle"]_vars
  /\ [][pollOutcome = "completed"
        => (pollPc' \notin {"status", "timer"} /\ statusCalls' <= statusCalls)]_vars

C13_Witness ==
  /\ pollOutcome = "completed" /\ statusCalls = 4 /\ pendingAnswers = 3
  /\ state.imageUrl = <<"image-2">> /\ ~state.isGenerating
  /\ waited = 3 * PollInterval

\* C14: a status call that throws ends the polling: isGenerating is false, the
\* error is set, no timer is armed and no further status call is made; a thrown
\* call is never followed by another poll the way a `pending` answer is.
C14_ThrownStatusCallIsTerminal ==
  /\ [][(pollPc = "status" /\ StatusReturns(ThrownAnswer))
        => /\ pollOutcome' = "exception"
           /\ ~state'.isGenerating
           /\ state'.error # <<>>
           /\ pollPc' = "idle"
           /\ statusCalls' = statusCalls]_vars
  /\ [][pollOutcome = "exception"
        => (pollPc' \notin {"status", "timer"} /\ statusCalls' <= statusCalls)]_vars
  /\ [][(pollPc = "status" /\ attempts < maxAttempts /\ StatusReturns(Pending))
        => pollPc' = "timer"]_vars

C14_Witness ==
  /\ pollOutcome = "exception" /\ pollPc = "idle"
  /\ statusCalls = 2 /\ pendingAnswers = 1
  /\ ~state.isGenerating
  /\ state.error = <<"Failed to check image generation status">>

\* ------------------------------------------------- properties of FinalReveal
\* C15 as stated: for one player's image the trigger endpoint is requested at
\* most maxRetries = 3 times in total, however often the reveal screen renders
\* again; a response without an image and a thrown request are both retried
\* after the 10 s wait; the last attempt ends the loading with an error.
C15_AtMostThreeTriggerRequests ==
  /\ [](triggerRequests <= maxRetries)
  /\ [][\A o \in {"noImage", "thrown"} :
          (fetchChain # <<>> /\ FetchReturns(o, 0))
          => IF fetchChain[1].attemptNumber < maxRetries
             THEN fetchChain' = <<[fetchChain[1] EXCEPT !.pc = "wait"]>>
             ELSE /\ fetchChain' = <<>>
                  /\ ~display'[1].isLoading /\ display'[1].error # <<>>]_vars

\* ------------------------------------------ properties of generatePersonality
\* The number of "Skip" entries of the list the personality was asked for.
SkipsInList == Cardinality({i \in DOMAIN playerSelections : playerSelections[i] = "Skip"})

\* C16: for every 4-tuple of flavor tags (no Skip) the personality returned has
\* the name, emoji and description of the combination-table entry for the key
\* style-sweetness-texture-topping, or of the default entry
\* Classic-Light-Smooth-Caramel when the key is not in the table.
C16_TableEntryOrDefault ==
  (personality # <<>> /\ Len(playerSelections) = 4 /\ SkipsInList = 0)
  => LET entry == IF playerSelections \in DOMAIN combinations
                  THEN combinations[playerSelections]
                  ELSE combinations[<<"Classic", "Light", "Smooth", "Caramel">>]
     IN  /\ personality[1].name = entry.name
         /\ personality[1].emoji = entry.emoji
         /\ personality[1].description = [text |-> entry.description, skips |-> 0]

C16_Witness ==
  /\ playerSelections = <<"Adventure", "Rich", "Crunchy", "Sprinkles">>
  /\ personality # <<>>
  /\ personality[1].name = "Rainbow Hero Crunch"

\* C17 as stated: for every selection list in which more than half of the
\* entries are "Skip", the personality returned is the Mysterious Skipper.
C17_MostlySkippedIsSkipper ==
  (personality # <<>> /\ 2 * SkipsInList > Len(playerSelections))
  => personality[1].name = "The Mysterious Skipper"

\* C17 amended: for every selection list in which more than half but not all of
\* the entries are "Skip", the personality returned is the fixed Mysterious
\* Skipper; a list of nothing but "Skip" gets the Empty Ice Cream Cone instead.
C17_MostlyButNotAllSkippedIsSkipper ==
  /\ (/\ personality # <<>>
      /\ 2 * SkipsInList > Len(playerSelections)
      /\ SkipsInList < Len(playerSelections))
     => personality[1] = MysteriousSkipper
  /\ (personality # <<>> /\ SkipsInList = Len(playerSelections))
     => personality[1].name = "Empty Ice Cream Cone"

C17_Witness ==
  /\ playerSelections = <<"Skip", "Rich", "Skip", "Skip">>
  /\ personality # <<>>
  /\ personality[1].name = "The Mysterious Skipper"

\* C18: applied to four "Skip" selections, generatePersonality returns the fixed
\* Empty Ice Cream Cone personality, whoever the player is and whatever the
\* random draws are.
C18_FourSkipsIsEmptyCone ==
  (personality # <<>> /\ playerSelections = <<"Skip", "Skip", "Skip", "Skip">>)
  => /\ personality[1].name = "Empty Ice Cream Cone"
     /\ personality[1].emoji = "see-no-evil broken-heart"
     /\ personality[1].description.skips = 0
     /\ Len(personality[1].insights) = 4

C18_Witness ==
  /\ playerSelections = <<"Skip", "Skip", "Skip", "Skip">>
  /\ personality # <<>>
  /\ personality[1].name = "Empty Ice Cream Cone"

\* ------------------------------------------------- properties of play-again
\* C19: handlePlayAgain, from whatever game reached the reveal, leaves the
\* roster empty, both cursors 0, the game state `setup`, no current thinking
\* conversation and no persisted player snapshot; and a game played after it
\* is in `reveal` exactly when handleThinkingComplete has run 4 * P times since
\* its handleStartGame, as a first game is.
C19_PlayAgainStartsOver ==
  /\ [][lastOp' = "handlePlayAgain"
        => /\ gameState = "reveal"
           /\ players' = <<>>
           /\ currentPlayerIndex' = 0 /\ currentRoundIndex' = 0
           /\ gameState' = "setup"
           /\ currentThinking' = <<>>
           /\ storedPlayers' = <<>>
           /\ completeArg' = <<>> /\ ~isSelecting' /\ pendingPlayers' = <<>>]_vars
  /\ []((playedAgain /\ gameState \in {"playing", "thinking", "reveal"})
        => /\ Len(players) >= 1
           /\ advances <= Len(rounds) * Len(players)
           /\ (gameState = "reveal") <=> (advances = Len(rounds) * Len(players)))

C19_Witness ==
  /\ playedAgain /\ gameState = "reveal"
  /\ Len(players) = 2 /\ advances = 8
  /\ \A i \in DOMAIN players : Len(players[i].selections) = 4

\* ------------------------------------------------- properties of PlayerSetup
\* A name that is empty or holds nothing but blanks.
IsBlankName(name) == \A k \in DOMAIN name : name[k] = Blank

\* C20: whatever addPlayer, removePlayer, updatePlayerName and startGame calls
\* are made on the setup screen, the name list has between 1 and 4 entries;
\* startGame with no non-blank name changes nothing (no roster, no persisted
\* snapshot, no transition); otherwise the roster handed to handlePlayersReady
\* has 1 to 4 players with distinct ids, trimmed non-empty names, empty
\* selections and totalCost 0, and the game moves to `welcome`.
C20_SetupHandsOverValidRoster ==
  /\ [](Len(playerNames) >= 1 /\ Len(playerNames) <= 4)
  /\ [][(lastOp' = "startGame" /\ \A i \in DOMAIN playerNames : IsBlankName(playerNames[i]))
        => UNCHANGED <<players, storedPlayers, gameState, pendingPlayers, isStarting,
                       playerNames>>]_vars
  /\ [][(lastOp' = "startGame" /\ \E i \in DOMAIN playerNames : ~IsBlankName(playerNames[i]))
        => /\ pendingPlayers' # <<>>
           /\ Len(pendingPlayers'[1]) =
                Cardinality({i \in DOMAIN playerNames : ~IsBlankName(playerNames[i])})
           /\ gameState' = gameState /\ players' = players]_vars
  /\ [][lastOp' = "handlePlayersReady"
        => /\ players' = pendingPlayers[1]
           /\ Len(players') >= 1 /\ Len(players') <= 4
           /\ \A i, j \in DOMAIN players' : players'[i].id = players'[j].id => i = j
           /\ \A i \in DOMAIN players' :
                /\ players'[i].name # <<>>
                /\ Head(players'[i].name) # Blank
                /\ players'[i].name[Len(players'[i].name)] # Blank
                /\ players'[i].selections = <<>>
                /\ players'[i].totalCost = 0
           /\ gameState = "setup" /\ gameState' = "welcome"]_vars

C20_Witness ==
  /\ lastOp = "handlePlayersReady" /\ gameState = "welcome"
  /\ Len(players) = 4
  /\ \A i \in DOMAIN players : players[i].name = <<"A">> /\ players[i].totalCost = 0

\* ------------------------------------------- properties of the backend result
\* C21 as stated: when the thinking screen completes with the data of a
\* successful process-player-game call, the current player's totalCost becomes
\* that result's estimatedCost, whatever its value (0 included), in place of the
\* cost accumulated from the selections.
C21_BackendCostReplacesLocalCost ==
  [][(/\ lastOp' = "handleThinkingComplete"
      /\ completeArg # <<>>
      /\ completeArg[1] \in BackendData)
     => players'[currentPlayerIndex + 1].totalCost = completeArg[1].estimatedCost[1]]_vars

\* The handlers that write the roster during a game.
RosterOps == {"handleSelection", "handleSkip", "handleThinkingComplete"}

\* C22 as stated: AIInteraction records are append-only: an entry of a player's
\* aiInteractions is never changed by a later selection, skip or thinking
\* completion, with or without a backend result.
C22_InteractionsNeverChange ==
  [][lastOp' \in RosterOps =>
       \A i \in DOMAIN players : \A k \in DOMAIN players[i].aiInteractions :
          /\ i \in DOMAIN players'
          /\ k \in DOMAIN players'[i].aiInteractions
          /\ players'[i].aiInteractions[k] = players[i].aiInteractions[k]]_vars

\* C22, amended: a selection, skip or thinking completion never removes or
\* reorders an interaction and never changes its selection or round; the only
\* entry it may rewrite is the current player's latest one, which a thinking
\* completion marks with the enhanced response of a backend result that has one.
C22_OnlyLatestInteractionEnhanced ==
  [][lastOp' \in RosterOps =>
       \A i \in DOMAIN players : \A k \in DOMAIN players[i].aiInteractions :
          /\ i \in DOMAIN players'
          /\ k \in DOMAIN players'[i].aiInteractions
          /\ players'[i].aiInteractions[k].selection = players[i].aiInteractions[k].selection
          /\ players'[i].aiInteractions[k].round = players[i].aiInteractions[k].round
          /\ players'[i].aiInteractions[k] # players[i].aiInteractions[k] =>
               /\ lastOp' = "handleThinkingComplete"
               /\ completeArg # <<>> /\ completeArg[1].enhanced
               /\ i = currentPlayerIndex + 1
               /\ k = Len(players[i].aiInteractions)
               /\ players'[i].aiInteractions[k].enhanced]_vars

\* A thinking completion has put the enhanced response on the second of a
\* player's two interactions and left the first as it was appended.
C22_Witness ==
  /\ lastOp = "handleThinkingComplete"
  /\ \E i \in DOMAIN players :
       /\ Len(players[i].aiInteractions) = 2
       /\ players[i].aiInteractions[1] = aiInteraction(players[i].selections[1], 0)
       /\ players[i].aiInteractions[2].enhanced

\* C23 as stated: after every mutation of the roster by a selection, a skip or
\* the backend update of a thinking completion, the snapshot persisted under
\* 'iceCreamGamePlayers' equals the roster in memory; after play-again no
\* snapshot is stored.
C23_SnapshotFollowsRoster ==
  [][/\ (lastOp' \in RosterOps /\ players' # players) => storedPlayers' = <<players'>>
     /\ lastOp' = "handlePlayAgain" => storedPlayers' = <<>>]_vars

\* ------------------------------------------- properties of the cursors
\* The players before index p have all 4 selections, the players after it none.
AroundCursor(p) ==
  \A i \in DOMAIN players :
     /\ i < p + 1 => Len(players[i].selections) = Len(rounds)
     /\ i > p + 1 => Len(players[i].selections) = 0

\* C27: in `playing` at cursors (p, r), 0 <= p < number of players and
\* 0 <= r < 4, every player before p has exactly 4 selections, player p exactly
\* r and every player after p none; in `thinking` player p has exactly r + 1;
\* in `reveal` every player has exactly 4.
C27_CursorsCountSelections ==
  /\ gameState \in {"playing", "thinking"} =>
       /\ 0 <= currentPlayerIndex /\ currentPlayerIndex < Len(players)
       /\ 0 <= currentRoundIndex /\ currentRoundIndex < 4
       /\ AroundCursor(currentPlayerIndex)
  /\ gameState = "playing" =>
       Len(players[currentPlayerIndex + 1].selections) = currentRoundIndex
  /\ gameState = "thinking" =>
       Len(players[currentPlayerIndex + 1].selections) = currentRoundIndex + 1
  /\ gameState = "reveal" =>
       \A i \in DOMAIN players : Len(players[i].selections) = 4

\* The second of two players is in the thinking phase of the third round, which
\* was skipped.
C27_Witness ==
  /\ gameState = "thinking" /\ Len(players) = 2
  /\ currentPlayerIndex = 1 /\ currentRoundIndex = 2
  /\ Len(players[1].selections) = 4
  /\ Len(players[2].selections) = 3 /\ players[2].selections[3] = "Skip"

\* ------------------------------------------- properties of partly skipped lists
\* C26 as stated: when a player's 4 selections hold exactly one or two "Skip"
\* entries, every non-Skip selection keeps the slot of its round (1 style,
\* 2 sweetness, 3 texture, 4 topping) in the combination key and the insights,
\* only the skipped slots are filled with drawn flavors, and the personality
\* carries exactly 5 insights.
C26_SelectionsKeepTheirSlots ==
  (personality # <<>> /\ Len(playerSelections) = 4 /\ SkipsInList \in {1, 2})
  => /\ Len(personality[1].insights) = 5
     /\ \E fill \in [1..4 -> Flavors] :
          LET slot == [i \in 1..4 |-> IF playerSelections[i] = "Skip" THEN fill[i]
                                      ELSE playerSelections[i]]
          IN  personality[1] =
                generateCombinationPersonality(slot[1], slot[2], slot[3], slot[4],
                                               TRUE, SkipsInList)

\* ------------------------------------------- properties of the game data
\* C30 as stated: for every player, players with one or two skipped rounds
\* included, the personality in the game data that the reveal screen saves to
\* the backend and offers for download is the personality the screen shows for
\* that player, on every render of the screen.
C30_GameDataHoldsDisplayedPersonality ==
  personality # <<>> =>
    /\ savedPersonality \in {<<>>, personality}
    /\ downloadedPersonality \in {<<>>, personality}

\* ------------------------------------------- properties of the session id
\* C25 as stated: the session id identifies one playthrough: all the
\* image-generation requests of one playthrough carry the same session id, and
\* the requests of the playthrough started by play-again carry a session id
\* different from the one of the playthrough before.
C25_SessionIdPerPlaythrough ==
  \A a, b \in sentSessions :
     (a.playedAgain = b.playedAgain) <=> (a.session = b.session)

\* ------------------------------------------- properties of the hook's lifetime
\* C24 as stated: unmounting the view that owns an image-generation poll while
\* a status call or the poll's timer is outstanding cancels the poll: once the
\* view is unmounted no further status request is issued for the task.
C24_UnmountCancelsPoll ==
  [][(~hookMounted /\ pollPc \in {"status", "timer"}) => statusCalls' = statusCalls]_vars

\* ------------------------------------------- properties of the thinking screen's timers
\* C28: for each entry into `thinking` the thinking screen calls onComplete
\* exactly once, whatever the timing of the progress steps, the restarts of
\* the completion timer and the backend answer (early, late, failing or never
\* arriving): no call has been made while the screen is up, the screen does
\* come down, and exactly one call has been made once it is down.
C28_OnCompleteExactlyOnce ==
  /\ [](onCompleteCalls = IF thinkingMounted THEN 0 ELSE 1)
  /\ [](thinkingMounted => <>(~thinkingMounted))

\* The game has advanced out of the fourth thinking phase on a call made while
\* the backend had not answered.
C28_Witness ==
  /\ gameState = "reveal" /\ advances = 4
  /\ onCompleteCalls = 1
  /\ advanceArg = <<resultObject(<<>>, <<>>, FALSE, <<>>, <<>>)>>

\* C29 as stated: when the backend result of a thinking phase has been received
\* before onComplete is called for that phase, the value passed is that
\* result, and its cost and enhanced response are applied to the current
\* player, also when it arrived in the second between the completion timer and
\* the call.
C29_ReceivedResultIsPassed ==
  [][(/\ onCompleteCalls' = onCompleteCalls + 1
      /\ processingResult # <<>>
      /\ processingResult[1] \in BackendData)
     => /\ advanceArg' = processingResult
        /\ players'[currentPlayerIndex + 1] =
             updatedByResult(currentPlayer, processingResult[1])]_vars

====
